---- MODULE Spec2Model ----
(***************************************************************************)
(* Dependency-aware version propagation of nx-python's release-version     *)
(* generator (packages/nx-python/src/generators/release-version/           *)
(* release-version.ts).  One run of releaseVersionGenerator is a state     *)
(* machine: option validation, then one turn per selected project (current *)
(* version, specifier, versionData record, own manifest write, in-batch    *)
(* dependents, out-of-batch dependents, transitive dependents), then the   *)
(* returned callback.                                                      *)
(***************************************************************************)
EXTENDS Integers, Sequences, FiniteSets, TLC

\* ------------------------------------------------------------------ bounds
\* Projects of the workspace are numbered 1..NumProjects.
NumProjects == 4
\* Local dependency edges of the workspaces of SpecGraph.
MaxEdges == 4
\* Selected projects (options.projects) of the workspaces of SpecGraph.
MaxSelected == 3
\* Projects, edges and selected projects of the workspaces of Spec.
OptProjects == 2
OptEdges == 1
OptSelected == 2
\* Projects, edges and version plans of the workspaces of SpecPlans.
PlanProjects == 2
PlanEdges == 2
MaxPlans == 2

\* Projects and edges of the workspaces of SpecChain.
ChainProjects == 3
ChainEdges == 3

\* DescribeTasks answers the mocks hold for one run of EcsRemoteRunner.run: the last
\* one reports the task STOPPED.
MaxPolls == 3

\* SpecPreserve: projects and local edges of the workspaces released with
\* preserveLocalDependencyProtocols.
PreserveProjects == 3
PreserveEdges == 2

Projects == 1..NumProjects

\* ------------------------------------------------------------------ values
\* "No value" (null / undefined) of a version, a specifier or a git tag.
Null == [null |-> TRUE]

\* A semver version: pre is the prerelease part, <<>> for a release, <<n>> for a
\* numeric prerelease ("1.0.1-0"), <<id, n>> for an identified one ("1.0.0-beta.1").
Version(ma, mi, pa, pr) == [major |-> ma, minor |-> mi, patch |-> pa, pre |-> pr]

IsVersion(v) == v # Null

\* The relative keywords of semver (ReleaseType).
ReleaseTypes == {"major", "premajor", "minor", "preminor", "patch", "prepatch", "prerelease"}

\* A specifier: a relative keyword, an exact version (typed with or without a
\* leading "v"), an invalid string, or Null.
Keyword(k) == [keyword |-> k]
Exact(v, lead) == [version |-> v, v |-> lead]
Invalid == [invalid |-> TRUE]

IsKeyword(s) == DOMAIN s = {"keyword"}
IsExact(s) == DOMAIN s = {"version", "v"}

\* Prerelease identifiers compare in ASCII order: "alpha" < "beta" < "rc".
PreidRank(id) == CASE id = "alpha" -> 1 [] id = "beta" -> 2 [] OTHER -> 3

\* ------------------------------------------------------------------ semver
\* compareIdentifiers over prerelease lists: a release is above every prerelease,
\* a numeric identifier is below an alphanumeric one, a longer list is above its prefix.
PreLess(a, b) ==
    CASE a = <<>> -> FALSE
      [] b = <<>> -> TRUE
      [] Len(a) = 1 /\ Len(b) = 1 -> a[1] < b[1]
      [] Len(a) = 1 /\ Len(b) = 2 -> TRUE
      [] Len(a) = 2 /\ Len(b) = 1 -> FALSE
      [] OTHER -> \/ PreidRank(a[1]) < PreidRank(b[1])
                  \/ (a[1] = b[1] /\ a[2] < b[2])

\* semver gt(a, b).
gt(a, b) ==
    \/ a.major > b.major
    \/ (a.major = b.major /\ a.minor > b.minor)
    \/ (a.major = b.major /\ a.minor = b.minor /\ a.patch > b.patch)
    \/ (a.major = b.major /\ a.minor = b.minor /\ a.patch = b.patch /\ PreLess(b.pre, a.pre))

\* SemVer.inc('pre', identifier): bump the last numeric identifier (or start at 0),
\* then switch to the identifier when it is not the current one.
incPre(pre, preid) ==
    LET bumped == CASE pre = <<>> -> <<0>>
                    [] Len(pre) = 1 -> <<pre[1] + 1>>
                    [] OTHER -> <<pre[1], pre[2] + 1>>
    IN  IF preid = Null THEN bumped
        ELSE IF Len(bumped) = 2 /\ bumped[1] = preid.id THEN bumped
        ELSE <<preid.id, 0>>

\* semver inc(version, release, identifier).
inc(v, release, preid) ==
    CASE release = "premajor" -> Version(v.major + 1, 0, 0, incPre(<<>>, preid))
      [] release = "preminor" -> Version(v.major, v.minor + 1, 0, incPre(<<>>, preid))
      [] release = "prepatch" -> Version(v.major, v.minor, v.patch + 1, incPre(<<>>, preid))
      [] release = "prerelease" ->
            IF v.pre = <<>>
            THEN Version(v.major, v.minor, v.patch + 1, incPre(<<>>, preid))
            ELSE Version(v.major, v.minor, v.patch, incPre(v.pre, preid))
      [] release = "major" ->
            IF v.minor # 0 \/ v.patch # 0 \/ v.pre = <<>>
            THEN Version(v.major + 1, 0, 0, <<>>)
            ELSE Version(v.major, 0, 0, <<>>)
      [] release = "minor" ->
            IF v.patch # 0 \/ v.pre = <<>>
            THEN Version(v.major, v.minor + 1, 0, <<>>)
            ELSE Version(v.major, v.minor, 0, <<>>)
      [] OTHER ->
            IF v.pre = <<>>
            THEN Version(v.major, v.minor, v.patch + 1, <<>>)
            ELSE Version(v.major, v.minor, v.patch, <<>>)

\* semver prerelease(version): truthy exactly for a prerelease.
prerelease(v) == IsVersion(v) /\ v.pre # <<>>

\* nx deriveNewSemverVersion: a relative keyword increments, an exact version is
\* returned as given.
deriveNewSemverVersion(currentVersion, spec, preid) ==
    IF IsKeyword(spec) THEN inc(currentVersion, spec.keyword, preid) ELSE spec.version

\* ------------------------------------------------------------------ state
VARIABLES
    options,       \* the generator's options (specifier and specifierSource are reassigned)
    tree,          \* the virtual file tree: every project's pyproject.toml, and the root's
    pc,            \* the generator's position
    projects,      \* the processing order (line 96)
    idx,           \* index in projects of the project being processed
    currentVersion,
    currentVersionResolvedFromFallback,
    latestMatchingGitTag,
    specifier,     \* Null is null, Undefined is "not resolved yet"
    newVersion,    \* the turn's newVersion (line 659)
    versionData,
    projectToDependencyBumps,
    poetryLocks,
    deleteVersionPlanCallbacks,
    tree0,         \* history: the tree at the start of the run
    options0,      \* history: the options as given
    writeLog,      \* history: every writePyprojectToml call
    resolved,      \* history: every specifier resolution
    calls,         \* history: every invocation of the returned callback
    logger,        \* the ProjectLogger of the project being processed (line 52)
    console,       \* history: every flush of a ProjectLogger
    step,          \* EcsRemoteRunner.run: the step run() is about to perform
    commands,      \* EcsRemoteRunner.run: every command issued, with the mock's answer
    error,         \* EcsRemoteRunner.run: the error run() will throw after its cleanup
    outcome,       \* EcsRemoteRunner.run: "pending", "resolved" or "rejected"
    unpreserved,   \* history: what the loops would have made of the run's state had
                   \* preserveLocalDependencyProtocols been false (Null when it is)
    addOptions,    \* add executor: its options (AddExecutorSchema)
    context,       \* add executor: the workspace its ExecutorContext describes
    spawned,       \* add executor: every spawnSync call, with the exit status it had
    dependencyTree,\* add executor: "stale" until updateDependencyTree has run
    result         \* add executor: Pending, what it returned, or Thrown

vars == <<options, tree, pc, projects, idx, currentVersion,
          currentVersionResolvedFromFallback, latestMatchingGitTag, specifier,
          newVersion, versionData, projectToDependencyBumps, poetryLocks,
          deleteVersionPlanCallbacks, tree0, options0, writeLog, resolved, calls,
          logger, console, step, commands, error, outcome, unpreserved,
          addOptions, context, spawned, dependencyTree, result>>

\* The state of EcsRemoteRunner.run, which no step of the generator touches.
runner == <<step, commands, error, outcome>>

\* The state of the add executor, which no step of the generator or of the runner
\* touches.
adder == <<addOptions, context, spawned, dependencyTree, result>>

\* `undefined` of the specifier (line 125), distinct from null.
Undefined == [undefined |-> TRUE]

\* ------------------------------------------------------------------ manifests
\* A dependency entry of a manifest: absent, a path reference without a version,
\* or a version string (alone or as the version of an object entry).
NoDep == [none |-> TRUE]
PathOnly == [path |-> TRUE]
Entry(prefix, v) == [prefix |-> prefix, version |-> v]

HasVersionString(e) == DOMAIN e = {"prefix", "version"}

\* The local dependency edges <<source, target>> of a tree: source's manifest
\* names target as a local dependency.
LocalEdges(t) ==
    {e \in Projects \X Projects :
        /\ e[1] # e[2]
        /\ t.manifest[e[1]].exists /\ t.manifest[e[2]].exists
        /\ t.manifest[e[1]].deps[e[2]] # NoDep}

\* The manifests of a workspace with the given edges, versions and entry style.
MakeTree(edges, versions, style, root) ==
    [manifest |-> [p \in Projects |->
        [exists  |-> TRUE,
         version |-> versions[p],
         deps    |-> [q \in Projects |->
                        IF <<p, q>> \notin edges THEN NoDep
                        ELSE IF style = "path" \/ versions[q] = Null THEN PathOnly
                        ELSE Entry(style, versions[q])]]],
     root |-> root]

\* ------------------------------------------------------------------ inputs
RECURSIVE EdgeSetsUpTo(_, _)
EdgeSetsUpTo(pairs, n) ==
    IF n = 0 THEN {{}}
    ELSE LET smaller == EdgeSetsUpTo(pairs, n - 1)
         IN  smaller \cup {s \cup {e} : s \in smaller, e \in pairs}

\* Every edge set of at most e edges over the projects 1..n.
Graphs(n, e) == EdgeSetsUpTo({x \in (1..n) \X (1..n) : x[1] # x[2]}, e)

RECURSIVE Perms(_)
Perms(S) ==
    IF S = {} THEN {<<>>}
    ELSE UNION {{<<x>> \o p : p \in Perms(S \ {x})} : x \in S}

Ascending(k) == [i \in 1..k |-> i]

Range(seq) == {seq[i] : i \in 1..Len(seq)}

\* The options.projects of the runs: the projects 1..k for a k up to n, in every
\* order when the given order is the processing order (updateDependents 'never').
Selections(n, ud) ==
    UNION {IF ud = "never" THEN Perms(1..k) ELSE {Ascending(k)} : k \in 1..n}

\* Start-of-run versions: project p is at p.0.0, a release or the prerelease
\* p.0.0-beta.1; the last project of the workspace may have no version at all.
Release(p) == Version(p, 0, 0, <<>>)
Beta(p) == Version(p, 0, 0, <<"beta", 1>>)
AllRelease == [p \in Projects |-> Release(p)]
AllBeta == [p \in Projects |-> Beta(p)]
LastVersionless(n) == [p \in Projects |-> IF p = n THEN Null ELSE Release(p)]

\* The defaults of the options (schema.json); a run overrides some of them.
DefaultOptions ==
    [projects |-> <<1>>,
     specifier |-> Null,
     specifierSource |-> "prompt",
     updateDependents |-> "never",
     projectsRelationship |-> "independent",
     versionPlans |-> FALSE,
     resolvedVersionPlans |-> <<>>,
     currentVersionResolver |-> "disk",
     fallbackCurrentVersionResolver |-> "undefined",
     firstRelease |-> FALSE,
     versionPrefix |-> "auto",
     preserveLocalDependencyProtocols |-> FALSE,
     preid |-> Null,
     deleteVersionPlans |-> FALSE,
     logUnchangedProjects |-> TRUE]

\* ------------------------------------------------------------------ dependency graph
\* resolveLocalPackageDependencies(tree, graph, projects, ..., includeAll): the local
\* edges, in the order of Object.values(...).flat() (by source, then by target);
\* without includeAll only the edges between two projects of the run.
resolveLocalPackageDependencies(t, selected, includeAll) ==
    LET keep(e) == includeAll \/ (e[1] \in Range(selected) /\ e[2] \in Range(selected))
        all == [i \in 1..(NumProjects * NumProjects) |->
                    <<((i - 1) \div NumProjects) + 1, ((i - 1) % NumProjects) + 1>>]
    IN  SelectSeq(all, LAMBDA e : e \in LocalEdges(t) /\ keep(e))

RECURSIVE Closure(_, _)
Closure(R, n) ==
    IF n = 0 THEN R
    ELSE Closure(R \cup {x \in Projects \X Projects :
                            \E y \in Projects : <<x[1], y>> \in R /\ <<y, x[2]>> \in R},
                 n - 1)

\* sortProjectsTopologically(graph, projects): the orders that place a dependency
\* before its dependents among the selected projects; two projects on a common
\* cycle may come in either order.
sortProjectsTopologically(t, selected) ==
    LET sel == Range(selected)
        E == {e \in LocalEdges(t) : e[1] \in sel /\ e[2] \in sel}
        R == Closure(E, NumProjects)
        pos(o, x) == CHOOSE i \in 1..Len(o) : o[i] = x
    IN  {o \in Perms(sel) :
            \A e \in E : <<e[2], e[1]>> \notin R => pos(o, e[2]) < pos(o, e[1])}

\* The project being processed.
Project == projects[idx]

includeAll == options.projectsRelationship = "independent"

localPackageDependencies == resolveLocalPackageDependencies(tree, projects, includeAll)

\* Lines 547-551: the edges whose target is the processed project.
allDependentProjects(p) == SelectSeq(localPackageDependencies, LAMBDA e : e[2] = p)

\* Lines 553-566: for every direct dependent, the edges whose target it is.
RECURSIVE DependentsOfEach(_, _, _)
DependentsOfEach(direct, i, all) ==
    IF i > Len(direct) THEN <<>>
    ELSE SelectSeq(all, LAMBDA e : e[2] = direct[i][1]) \o DependentsOfEach(direct, i + 1, all)

transitiveWhateverTheMode(p) ==
    DependentsOfEach(allDependentProjects(p), 1, localPackageDependencies)

transitiveLocalPackageDependents(p) ==
    IF options.updateDependents # "auto" THEN <<>>
    ELSE DependentsOfEach(allDependentProjects(p), 1, localPackageDependencies)

\* Lines 570-582: both directions of every edge onto the processed project.
circularDependencies(p) ==
    UNION {{<<e[1], e[2]>>, <<e[2], e[1]>>} : e \in Range(allDependentProjects(p))}

\* A version plan names a project (projectVersionBumps[name] is set).
PlanBump(plan, name) == plan.projectVersionBumps[name]

IsProjectsPlan(plan) == "projectVersionBumps" \in DOMAIN plan

\* Lines 584-598: the dependent is one of options.projects and, with version
\* plans, some plan bumps it (a group plan bumps every project).
isInCurrentBatch(source) ==
    LET selected == \E i \in 1..Len(options.projects) : options.projects[i] = source
        plans == options.resolvedVersionPlans
    IN  IF selected /\ options.specifierSource = "version-plans"
        THEN \E i \in 1..Len(plans) :
                IF IsProjectsPlan(plans[i]) THEN PlanBump(plans[i], source) # "" ELSE TRUE
        ELSE selected

dependentProjectsInCurrentBatch(p) ==
    SelectSeq(allDependentProjects(p), LAMBDA e : isInCurrentBatch(e[1]))

dependentProjectsOutsideCurrentBatch(p) ==
    SelectSeq(allDependentProjects(p), LAMBDA e : ~isInCurrentBatch(e[1]))

\* Lines 607-629: the dependents the 'never' warning of the turn enumerates.
warnedDependents(p) ==
    IF options.updateDependents = "never"
    THEN [i \in 1..Len(dependentProjectsOutsideCurrentBatch(p)) |->
            dependentProjectsOutsideCurrentBatch(p)[i][1]]
    ELSE <<>>

\* ------------------------------------------------------------------ dependents
\* extractDependencyVersion: the version string the dependent records for the
\* dependency, null when the entry carries none.
extractDependencyVersion(entry) == IF HasVersionString(entry) THEN entry ELSE Null

\* validReleaseVersionPrefixes of nx.
anyReleaseVersionPrefix == {"auto", "", "~", "^", "=", "?"}

validReleaseVersionPrefixes == {"auto", "", "~", "^", "="}

configuredVersionPrefix(currentDependencyVersion) == options.versionPrefix

\* Lines 767-779: the configured prefix, or with 'auto' the leading ^ or ~ of the
\* current entry.
inferVersionPrefix(currentDependencyVersion) ==
    LET versionPrefix == options.versionPrefix
    IN  IF versionPrefix # "auto" THEN versionPrefix
        ELSE IF currentDependencyVersion # Null
                /\ currentDependencyVersion.prefix \in {"~", "^"}
        THEN currentDependencyVersion.prefix
        ELSE ""

\* One writePyprojectToml call, as recorded in writeLog.
Written(project, turn, phase, spec, from, to) ==
    [project |-> project, turn |-> turn, phase |-> phase, spec |-> spec,
     from |-> from, to |-> to]

\* Lines 808-815: the dependent's version after a forced bump ("" is no bump).
forcedPackageVersionUnchanged(currentPackageVersion, force) == currentPackageVersion

forcedPackageVersion(currentPackageVersion, force) ==
    IF force # ""
    THEN deriveNewSemverVersion(currentPackageVersion, Keyword(force), options.preid)
    ELSE currentPackageVersion

alwaysUpdateDependency(st) == TRUE

\* Lines 781-784: the dependency entry is rewritten unless the option preserves
\* it; st.preserve is the option of the run st belongs to.
shouldUpdateDependency(st) == ~st.preserve

\* updateDependentProjectAndAddToVersionData (lines 702-832) on
\* st = [tree, versionData, poetryLocks, writeLog, bumps, preserve]: dep is the edge
\* <<dependent, dependency>>, force is "patch" or "" (false).
updateDependentProjectAndAddToVersionData(st, turn, phase, dep, newDependencyVersion, force) ==
    LET source == dep[1]
        updatedPyproject == st.tree.manifest[source]
        entry == updatedPyproject.deps[dep[2]]
        locked == [st EXCEPT !.poetryLocks = Append(@, source)]
        currentDependencyVersion == extractDependencyVersion(entry)
        currentPackageVersion == updatedPyproject.version
        transitiveDependentProjects ==
            SelectSeq(transitiveLocalPackageDependents(turn), LAMBDA e : e[2] = source)
        versionPrefix == inferVersionPrefix(currentDependencyVersion)
        newEntry == IF shouldUpdateDependency(st) /\ HasVersionString(entry)
                    THEN Entry(versionPrefix, newDependencyVersion)
                    ELSE entry
        newPackageVersion == forcedPackageVersion(currentPackageVersion, force)
        applied == IF force # "" THEN Keyword(force) ELSE Null
    IN  IF ~updatedPyproject.exists THEN locked
        ELSE IF currentPackageVersion = Null
        THEN [locked EXCEPT
                !.versionData[source] =
                    IF force # ""
                    THEN [currentVersion |-> currentPackageVersion,
                          newVersion |-> currentDependencyVersion,
                          dependentProjects |-> transitiveDependentProjects]
                    ELSE @,
                !.writeLog = Append(@, Written(source, turn, phase, applied, Null, Null))]
        ELSE [locked EXCEPT
                !.tree.manifest[source].deps[dep[2]] = newEntry,
                !.tree.manifest[source].version = newPackageVersion,
                !.versionData[source] =
                    IF force # ""
                    THEN [currentVersion |-> currentPackageVersion,
                          newVersion |-> newPackageVersion,
                          dependentProjects |-> transitiveDependentProjects]
                    ELSE @,
                !.writeLog = Append(@, Written(source, turn, phase, applied,
                                               currentPackageVersion, newPackageVersion))]

updateDependentsBump == "patch"

\* Lines 834-853.
RECURSIVE InBatchLoop(_, _, _, _, _)
InBatchLoop(st, p, deps, i, version) ==
    IF i > Len(deps) THEN st
    ELSE LET registered == [st EXCEPT !.bumps[deps[i][1]] = @ \cup {p}]
         IN  InBatchLoop(
                updateDependentProjectAndAddToVersionData(
                    registered, p, "inbatch", deps[i], version, ""),
                p, deps, i + 1, version)

\* Lines 873-877: no forced bump for a dependent that has its own turn under
\* version plans.
outsideForceVersionBump(source) ==
    IF options.specifierSource = "version-plans" /\ source \in Range(projects)
    THEN ""
    ELSE updateDependentsBump

\* Lines 856-879.
RECURSIVE OutsideLoop(_, _, _, _, _)
OutsideLoop(st, p, deps, i, version) ==
    IF i > Len(deps) THEN st
    ELSE LET source == deps[i][1]
             registered ==
                IF options.specifierSource = "version-plans" /\ st.bumps[source] = {}
                THEN [st EXCEPT !.bumps[source] = {p}]
                ELSE st
         IN  OutsideLoop(
                updateDependentProjectAndAddToVersionData(
                    registered, p, "outside", deps[i], version,
                    outsideForceVersionBump(source)),
                p, deps, i + 1, version)

\* Lines 913-915: no forced bump for a dependent on a circular edge.
transitiveForceVersionBump(p, dep) ==
    IF <<dep[1], dep[2]>> \in circularDependencies(p) THEN "" ELSE updateDependentsBump

\* Lines 881-917: the dependency's version is read from its manifest as it is now.
RECURSIVE TransitiveLoop(_, _, _, _)
TransitiveLoop(st, p, deps, i) ==
    IF i > Len(deps) THEN st
    ELSE TransitiveLoop(
            updateDependentProjectAndAddToVersionData(
                st, p, "transitive", deps[i],
                st.tree.manifest[deps[i][2]].version,
                transitiveForceVersionBump(p, deps[i])),
            p, deps, i + 1)

\* The part of the state the three loops change.
Loops == [tree |-> tree, versionData |-> versionData, poetryLocks |-> poetryLocks,
          writeLog |-> writeLog, bumps |-> projectToDependencyBumps,
          preserve |-> options.preserveLocalDependencyProtocols]

SetLoops(st) ==
    /\ tree' = st.tree
    /\ versionData' = st.versionData
    /\ poetryLocks' = st.poetryLocks
    /\ writeLog' = st.writeLog
    /\ projectToDependencyBumps' = st.bumps

\* The same run without preserveLocalDependencyProtocols, as it starts: followed
\* only for a run that sets the option.
Unpreserved(run) ==
    IF run.options.preserveLocalDependencyProtocols
    THEN [tree |-> run.tree, versionData |-> [p \in Projects |-> Null],
          poetryLocks |-> <<>>, writeLog |-> <<>>,
          bumps |-> [p \in Projects |-> {}], preserve |-> FALSE]
    ELSE Null

\* The run without the option takes the step of the run as well: st is what the
\* step makes of unpreserved.
AlsoUnpreserved(st) ==
    unpreserved' = IF unpreserved = Null THEN Null ELSE st

\* ------------------------------------------------------------------ environment
\* A version no manifest of the workspace holds: what a git tag or the registry
\* may name instead of the version on disk.
PublishedVersion == Version(0, 9, 0, <<>>)

\* getLatestGitTagForPattern for a project: no tag, or a tag and its version.
GitTagAnswers(p) ==
    {Null} \cup {[tag |-> p, extractedVersion |-> v] :
                    v \in ({tree0.manifest[p].version, PublishedVersion} \ {Null})}

\* `pip index versions`: a failure (Null) or the published version.
RegistryAnswers(p) == {Null} \cup ({tree0.manifest[p].version, PublishedVersion} \ {Null})

\* resolveSemverSpecifierFromConventionalCommits: null or a bump.
ConventionalCommitsAnswers == {Null, Keyword("minor")}

\* resolveSemverSpecifierFromPrompt: a keyword or an exact version.
PromptAnswers == {Keyword("prerelease"), Exact(Version(2, 0, 0, <<>>), FALSE)}

\* ------------------------------------------------------------------ the run
\* isValidSemverSpecifier.
isValidSemverSpecifier(spec) == IsKeyword(spec) \/ IsExact(spec)

\* Lines 1023-1046: a ProjectLogger and one buffered message; n is the number a
\* message announces (0 when it announces none).
ProjectLogger(projectName) == [projectName |-> projectName, logs |-> <<>>]

Line(msg, n) == [msg |-> msg, n |-> n]

\* buffer(msg) on the logger lg.
buffer(lg, msgs) == [lg EXCEPT !.logs = @ \o msgs]

\* The buffered messages, when the condition holds.
When(condition, msgs) == IF condition THEN msgs ELSE <<>>

flushNothing(lg) == console

\* flush() prints every buffered message and keeps the buffer; `logger?.flush()`
\* does nothing before the first logger exists.
flush(lg) == IF lg = Null THEN console ELSE Append(console, lg)

\* The catch block (lines 961-978): the logger lg of the moment of the throw is
\* flushed and the process exits, nothing is returned.
ExitReturningTheCallback(lg) ==
    /\ pc' = "returned"
    /\ logger' = lg
    /\ console' = flush(lg)
    /\ UNCHANGED <<options, tree, projects, idx, currentVersion,
                   currentVersionResolvedFromFallback, latestMatchingGitTag, specifier,
                   newVersion, versionData, projectToDependencyBumps, poetryLocks,
                   deleteVersionPlanCallbacks, tree0, options0, unpreserved, adder, runner, writeLog, resolved, calls>>

Exit(lg) ==
    /\ pc' = "exited"
    /\ logger' = lg
    /\ console' = flush(lg)
    /\ UNCHANGED <<options, tree, projects, idx, currentVersion,
                   currentVersionResolvedFromFallback, latestMatchingGitTag, specifier,
                   newVersion, versionData, projectToDependencyBumps, poetryLocks,
                   deleteVersionPlanCallbacks, tree0, options0, unpreserved, adder, runner, writeLog, resolved, calls>>

processingOrdersOfTheFirstProject == {SubSeq(options.projects, 1, 1)}

\* Lines 96-99: the projects in the order of their turns: as selected with
\* 'never', sorted topologically otherwise.
processingOrders ==
    IF options.updateDependents = "never"
    THEN {options.projects}
    ELSE sortProjectsTopologically(tree, options.projects)

\* Lines 59-134: option validation, defaults and the processing order.
Validate ==
    /\ pc = "start"
    /\ IF \/ (options.specifier # Null /\ ~isValidSemverSpecifier(options.specifier))
          \/ options.versionPrefix \notin validReleaseVersionPrefixes
       THEN Exit(logger)
       ELSE \E order \in processingOrders :
            LET stripped == IF options.specifier # Null /\ IsExact(options.specifier)
                            THEN Exact(options.specifier.version, FALSE)
                            ELSE options.specifier
            IN  /\ options' = [options EXCEPT
                        !.specifier = stripped,
                        !.fallbackCurrentVersionResolver =
                            IF options.firstRelease THEN "disk" ELSE @]
                /\ projects' = order
                /\ specifier' = IF stripped # Null THEN stripped ELSE Undefined
                /\ idx' = 1
                /\ pc' = IF Len(order) > 0 THEN "version" ELSE "format"
                /\ UNCHANGED <<tree, currentVersion, currentVersionResolvedFromFallback,
                               latestMatchingGitTag, newVersion, versionData,
                               projectToDependencyBumps, poetryLocks,
                               deleteVersionPlanCallbacks, tree0, options0, unpreserved, adder, runner, logger, console, writeLog, resolved, calls>>

\* What the environment may answer to the turn's current-version query.
CurrentVersionAnswers(p) ==
    LET fresh == currentVersion = Null \/ options.projectsRelationship = "independent"
    IN  IF ~tree.manifest[p].exists \/ ~fresh THEN {Null}
        ELSE IF options.currentVersionResolver = "registry" THEN RegistryAnswers(p)
        ELSE IF options.currentVersionResolver = "git-tag" THEN GitTagAnswers(p)
        ELSE {Null}

\* Lines 136-303: the manifest is read and the current version resolved.
ResolveCurrentVersion ==
    /\ pc = "version"
    /\ \E answer \in CurrentVersionAnswers(Project) :
        LET currentVersionFromDisk == tree.manifest[Project].version
            resolver == options.currentVersionResolver
            fresh == currentVersion = Null \/ options.projectsRelationship = "independent"
            fallback == options.fallbackCurrentVersionResolver = "disk"
            reading == buffer(ProjectLogger(Project), <<Line("Reading data", 0)>>)
            next(msg) ==
                    /\ pc' = "specifier"
                    /\ logger' = buffer(reading, <<Line(msg, 0)>>)
                    /\ UNCHANGED <<options, tree, projects, idx, specifier, newVersion,
                                   versionData, projectToDependencyBumps, poetryLocks,
                                   deleteVersionPlanCallbacks, tree0, options0, unpreserved, adder, runner,
                                   console, writeLog, resolved, calls>>
        IN  IF ~tree.manifest[Project].exists THEN Exit(logger)
            ELSE IF resolver = "disk"
            THEN IF currentVersionFromDisk = Null THEN Exit(reading)
                 ELSE /\ currentVersion' = currentVersionFromDisk
                      /\ UNCHANGED <<currentVersionResolvedFromFallback, latestMatchingGitTag>>
                      /\ next("Resolved the current version")
            ELSE IF resolver = "registry"
            THEN IF ~fresh
                 THEN /\ UNCHANGED <<currentVersion, currentVersionResolvedFromFallback,
                                     latestMatchingGitTag>>
                      /\ next("Using the current version already resolved")
                 ELSE IF answer # Null
                 THEN /\ currentVersion' = answer
                      /\ UNCHANGED <<currentVersionResolvedFromFallback, latestMatchingGitTag>>
                      /\ next("Resolved the current version")
                 ELSE IF fallback
                 THEN /\ currentVersion' = currentVersionFromDisk
                      /\ currentVersionResolvedFromFallback' = TRUE
                      /\ UNCHANGED latestMatchingGitTag
                      /\ next("Falling back to the version on disk")
                 ELSE Exit(reading)
            ELSE IF resolver = "git-tag"
            THEN IF ~fresh
                 THEN /\ UNCHANGED <<currentVersion, currentVersionResolvedFromFallback,
                                     latestMatchingGitTag>>
                      /\ next("Using the current version already resolved")
                 ELSE IF answer # Null
                 THEN /\ currentVersion' = answer.extractedVersion
                      /\ latestMatchingGitTag' = answer
                      /\ UNCHANGED currentVersionResolvedFromFallback
                      /\ next("Resolved the current version")
                 ELSE IF fallback
                 THEN /\ currentVersion' = currentVersionFromDisk
                      /\ currentVersionResolvedFromFallback' = TRUE
                      /\ latestMatchingGitTag' = Null
                      /\ next("Falling back to the version on disk")
                 ELSE Exit(reading)
            ELSE Exit(reading)

\* Lines 451-488: the reduce over the resolved version plans; "" is "no specifier
\* yet".  inc is called without a preid here.
RECURSIVE ReducePlansKeepingLater(_, _, _, _, _)
ReducePlansKeepingLater(plans, i, spec, name, version) ==
    IF i > Len(plans) THEN spec
    ELSE LET bump == IF options.projectsRelationship = "independent"
                     THEN PlanBump(plans[i], name)
                     ELSE plans[i].groupVersionBump
             kept == IF spec = "" THEN bump
                     ELSE IF bump = "" THEN spec
                     ELSE IF ~gt(inc(version, spec, Null), inc(version, bump, Null))
                     THEN bump
                     ELSE spec
         IN  ReducePlansKeepingLater(plans, i + 1, kept, name, version)

RECURSIVE ReducePlans(_, _, _, _, _)
ReducePlans(plans, i, spec, name, version) ==
    IF i > Len(plans) THEN spec
    ELSE LET bump == IF options.projectsRelationship = "independent"
                     THEN PlanBump(plans[i], name)
                     ELSE plans[i].groupVersionBump
             kept == IF spec = "" THEN bump
                     ELSE IF bump = "" THEN spec
                     ELSE IF gt(inc(version, bump, Null), inc(version, spec, Null))
                     THEN bump
                     ELSE spec
         IN  ReducePlans(plans, i + 1, kept, name, version)

\* Lines 366-372 and 490-496: an unchanged project whose dependency was bumped.
dependencyBumpFallbackWhateverTheMode(p) == projectToDependencyBumps[p] # {}

dependencyBumpFallback(p) ==
    options.updateDependents # "never" /\ projectToDependencyBumps[p] # {}

\* Lines 395-397.
WithPre(k) == CASE k = "major" -> "premajor" [] k = "minor" -> "preminor"
                [] k = "patch" -> "prepatch" [] OTHER -> k

\* Lines 366-403: the specifier from the classification of the commits.
fromConventionalCommits(p, answer) ==
    IF answer = Null
    THEN IF dependencyBumpFallback(p) THEN Keyword(updateDependentsBump) ELSE Null
    ELSE IF prerelease(currentVersion) THEN Keyword("prerelease")
    ELSE IF options.preid # Null THEN Keyword(WithPre(answer.keyword))
    ELSE answer

\* Lines 451-510: the specifier from the version plans.
fromVersionPlans(p) ==
    LET spec == ReducePlans(options.resolvedVersionPlans, 1, "", p, currentVersion)
    IN  IF spec # "" THEN Keyword(spec)
        ELSE IF dependencyBumpFallback(p) THEN Keyword(updateDependentsBump)
        ELSE Null

\* Lines 373-401: the message about the specifier from the commits.
conventionalCommitsLog(p, answer) ==
    IF answer = Null
    THEN IF dependencyBumpFallback(p)
         THEN "Resolved the specifier because updateDependents is enabled"
         ELSE "No changes were detected using git history"
    ELSE IF prerelease(currentVersion)
    THEN "Resolved the specifier since the current version is a prerelease"
    ELSE "Resolved the specifier using git history"

\* Lines 497-509: the message about the specifier from the version plans.
versionPlansLog(p) ==
    IF ReducePlans(options.resolvedVersionPlans, 1, "", p, currentVersion) # ""
    THEN "Resolved the specifier using version plans"
    ELSE IF dependencyBumpFallback(p)
    THEN "Resolved the specifier because updateDependents is enabled"
    ELSE "No changes were detected within version plans"

\* Lines 512-525: one deletion callback per resolved plan.
planCallbacks ==
    IF options.deleteVersionPlans
    THEN [i \in 1..Len(options.resolvedVersionPlans) |-> options.resolvedVersionPlans[i].id]
    ELSE <<>>

resolvesSpecifierInEveryTurn == specifier = Undefined \/ options.specifier = Null

\* Lines 323-327: whether this turn resolves the specifier.
resolvesSpecifier ==
    \/ specifier = Undefined
    \/ (options.projectsRelationship = "independent" /\ options.specifier = Null)

\* Line 310: an explicit specifier overrides the specifierSource.
effectiveSpecifierSource ==
    IF options.specifier # Null THEN "prompt" ELSE options.specifierSource

SpecifierAnswers ==
    IF ~resolvesSpecifier THEN {Null}
    ELSE IF effectiveSpecifierSource = "conventional-commits"
            /\ options.currentVersionResolver = "git-tag"
    THEN ConventionalCommitsAnswers
    ELSE IF effectiveSpecifierSource = "prompt" THEN PromptAnswers
    ELSE {Null}

Resolution(p, source, raw, final) ==
    [project |-> p, source |-> source, raw |-> raw, final |-> final,
     currentVersion |-> currentVersion]

anyCurrentVersionResolver == TRUE

\* Lines 331-335: 'conventional-commits' works from the git tag of the current
\* version.
resolverFitsConventionalCommits == options.currentVersionResolver = "git-tag"

\* Lines 305-534: the specifier of the turn.
ResolveSpecifier ==
    /\ pc = "specifier"
    /\ \E answer \in SpecifierAnswers :
        LET source == effectiveSpecifierSource
            provided == buffer(logger, When(options.specifier # Null,
                                <<Line("Using the provided version specifier", 0)>>))
            next(spec, raw, callbacks, msgs) ==
                /\ options' = [options EXCEPT !.specifierSource = source]
                /\ specifier' = spec
                /\ resolved' = Append(resolved, Resolution(Project, source, raw, spec))
                /\ deleteVersionPlanCallbacks' = deleteVersionPlanCallbacks \o callbacks
                /\ logger' = buffer(provided, msgs)
                /\ pc' = "record"
                /\ UNCHANGED <<tree, projects, idx, currentVersion,
                               currentVersionResolvedFromFallback, latestMatchingGitTag,
                               newVersion, versionData, projectToDependencyBumps,
                               poetryLocks, tree0, options0, unpreserved, adder, runner, console, writeLog,
                               calls>>
        IN  IF ~resolvesSpecifier
            THEN /\ options' = [options EXCEPT !.specifierSource = source]
                 /\ logger' = provided
                 /\ pc' = "record"
                 /\ UNCHANGED <<tree, projects, idx, currentVersion,
                                currentVersionResolvedFromFallback, latestMatchingGitTag,
                                specifier, newVersion, versionData,
                                projectToDependencyBumps, poetryLocks,
                                deleteVersionPlanCallbacks, tree0, options0, unpreserved, adder, runner,
                                console, writeLog, resolved, calls>>
            ELSE IF source = "conventional-commits"
            THEN IF \/ ~resolverFitsConventionalCommits
                    \/ (latestMatchingGitTag = Null
                            /\ options.fallbackCurrentVersionResolver # "disk")
                 THEN Exit(provided)
                 ELSE next(fromConventionalCommits(Project, answer), answer, <<>>,
                           <<Line(conventionalCommitsLog(Project, answer), 0)>>)
            ELSE IF source = "prompt" THEN next(answer, answer, <<>>, <<>>)
            ELSE IF source = "version-plans"
            THEN IF ~options.versionPlans THEN Exit(provided)
                 ELSE LET raw == ReducePlans(options.resolvedVersionPlans, 1, "",
                                             Project, currentVersion)
                      IN  next(fromVersionPlans(Project),
                               IF raw = "" THEN Null ELSE Keyword(raw), planCallbacks,
                               <<Line(versionPlansLog(Project), 0)>>)
            ELSE Exit(provided)

\* Lines 637-646: the record a turn starts from; newVersion stays null when the
\* project is skipped.
initialVersionDataBumped ==
    [currentVersion |-> currentVersion,
     newVersion |-> currentVersion,
     dependentProjects |-> allDependentProjects(Project)]

initialVersionDataInBatch ==
    [currentVersion |-> currentVersion,
     newVersion |-> Null,
     dependentProjects |-> dependentProjectsInCurrentBatch(Project)]

initialVersionData ==
    [currentVersion |-> currentVersion,
     newVersion |-> Null,
     dependentProjects |->
        IF options.updateDependents = "auto"
        THEN allDependentProjects(Project)
        ELSE dependentProjectsInCurrentBatch(Project)]

\* Lines 536-657: the versionData record of the turn; a project without
\* specifier is skipped.
RecordVersionData ==
    /\ pc = "record"
    /\ LET warned == buffer(logger, When(warnedDependents(Project) # <<>>,
                            <<Line("Warning, the following packages depend on", 0)>>))
           skipped == buffer(warned, <<Line("Skipping versioning", 0)>>)
       IN  IF currentVersion = Null THEN Exit(warned)
           ELSE /\ versionData' = [versionData EXCEPT ![Project] = initialVersionData]
                /\ AlsoUnpreserved(
                        [unpreserved EXCEPT !.versionData[Project] = initialVersionData])
                /\ IF specifier \in {Null, Undefined}
                   THEN /\ logger' = skipped
                        /\ console' = IF options.logUnchangedProjects
                                      THEN flush(skipped)
                                      ELSE console
                        /\ idx' = idx + 1
                        /\ pc' = IF idx < Len(projects) THEN "version" ELSE "format"
                   ELSE /\ logger' = warned
                        /\ UNCHANGED console
                        /\ idx' = idx
                        /\ pc' = "write"
                /\ UNCHANGED <<options, tree, projects, currentVersion,
                               currentVersionResolvedFromFallback, latestMatchingGitTag,
                               specifier, newVersion, projectToDependencyBumps,
                               poetryLocks, deleteVersionPlanCallbacks, tree0, options0, adder,
                               runner, writeLog, resolved, calls>>

\* Lines 659-663.
ownNewVersion == deriveNewSemverVersion(currentVersion, specifier, options.preid)

\* Lines 683-690: the number of packages the new version is announced for.
totalProjectsToUpdate(p) ==
    IF options.updateDependents = "auto"
    THEN Len(allDependentProjects(p)) + Len(transitiveLocalPackageDependents(p))
            - (Cardinality(circularDependencies(p)) \div 2)
    ELSE Len(dependentProjectsInCurrentBatch(p))

\* Lines 659-700: the new version is derived and written to the project's manifest.
WriteNewVersion ==
    /\ pc = "write"
    /\ LET derived == ownNewVersion
       IN  /\ newVersion' = derived
           /\ logger' = buffer(logger,
                <<Line("New version written", 0)>>
                \o When(allDependentProjects(Project) # <<>>
                            /\ totalProjectsToUpdate(Project) > 0,
                        <<Line("Applying new version", totalProjectsToUpdate(Project))>>))
           /\ versionData' = [versionData EXCEPT ![Project].newVersion = derived]
           /\ poetryLocks' = Append(poetryLocks, Project)
           /\ tree' = [tree EXCEPT !.manifest[Project].version = derived]
           /\ writeLog' = Append(writeLog,
                Written(Project, Project, "own", specifier,
                        tree.manifest[Project].version, derived))
           /\ AlsoUnpreserved(
                [unpreserved EXCEPT
                    !.versionData[Project].newVersion = derived,
                    !.poetryLocks = Append(@, Project),
                    !.tree.manifest[Project].version = derived,
                    !.writeLog = Append(@,
                        Written(Project, Project, "own", specifier,
                                unpreserved.tree.manifest[Project].version, derived))])
    /\ pc' = "inbatch"
    /\ UNCHANGED <<options, projects, idx, currentVersion,
                   currentVersionResolvedFromFallback, latestMatchingGitTag, specifier,
                   projectToDependencyBumps, deleteVersionPlanCallbacks, tree0, options0, adder,
                   runner, console, resolved, calls>>

\* Lines 834-853: the dependents of the current batch.
UpdateInBatch ==
    /\ pc = "inbatch"
    /\ SetLoops(InBatchLoop(Loops, Project, dependentProjectsInCurrentBatch(Project), 1,
                            newVersion))
    /\ AlsoUnpreserved(
            InBatchLoop(unpreserved, Project, dependentProjectsInCurrentBatch(Project), 1,
                        newVersion))
    /\ pc' = "outside"
    /\ UNCHANGED <<options, projects, idx, currentVersion,
                   currentVersionResolvedFromFallback, latestMatchingGitTag, specifier,
                   newVersion, deleteVersionPlanCallbacks, tree0, options0, adder, runner, logger, console, resolved, calls>>

\* Lines 855-880: with 'auto', the dependents outside the current batch.
UpdateOutside ==
    /\ pc = "outside"
    /\ SetLoops(IF options.updateDependents = "auto"
                THEN OutsideLoop(Loops, Project,
                                 dependentProjectsOutsideCurrentBatch(Project), 1, newVersion)
                ELSE Loops)
    /\ AlsoUnpreserved(
            IF options.updateDependents = "auto"
            THEN OutsideLoop(unpreserved, Project,
                             dependentProjectsOutsideCurrentBatch(Project), 1, newVersion)
            ELSE unpreserved)
    /\ pc' = "transitive"
    /\ UNCHANGED <<options, projects, idx, currentVersion,
                   currentVersionResolvedFromFallback, latestMatchingGitTag, specifier,
                   newVersion, deleteVersionPlanCallbacks, tree0, options0, adder, runner, logger, console, resolved, calls>>

\* Lines 881-921: the dependents of the dependents; the buffered messages are
\* printed and the turn ends.
UpdateTransitive ==
    /\ pc = "transitive"
    /\ SetLoops(TransitiveLoop(Loops, Project, transitiveLocalPackageDependents(Project), 1))
    /\ AlsoUnpreserved(
            TransitiveLoop(unpreserved, Project, transitiveLocalPackageDependents(Project), 1))
    /\ console' = flush(logger)
    /\ idx' = idx + 1
    /\ pc' = IF idx < Len(projects) THEN "version" ELSE "format"
    /\ UNCHANGED <<options, projects, currentVersion,
                   currentVersionResolvedFromFallback, latestMatchingGitTag, specifier,
                   newVersion, deleteVersionPlanCallbacks, tree0, options0, adder, runner, logger,
                   resolved, calls>>

\* Lines 923-960: formatFiles, then the version data and the callback are returned.
Return ==
    /\ pc = "format"
    /\ pc' = "returned"
    /\ UNCHANGED <<options, tree, projects, idx, currentVersion,
                   currentVersionResolvedFromFallback, latestMatchingGitTag, specifier,
                   newVersion, versionData, projectToDependencyBumps, poetryLocks,
                   deleteVersionPlanCallbacks, tree0, options0, unpreserved, adder, runner, logger, console, writeLog, resolved, calls>>

\* The root's poetry.lock among the changed files and lock directories.
Root == 0

\* Lines 514-522: what the deletion callbacks remove (and return as deleted).
removedWhateverTheMode(dryRun) == deleteVersionPlanCallbacks

removedByCallbacks(dryRun) == IF dryRun THEN <<>> ELSE deleteVersionPlanCallbacks

\* Lines 943-956: the directories `poetry lock --no-update` runs in.
lockedByCallback(dryRun) ==
    IF dryRun THEN <<>>
    ELSE poetryLocks \o (IF tree.root THEN <<Root>> ELSE <<>>)

\* Lines 932-959: the returned callback.  changedFiles names the poetry.lock of a
\* project directory by the project; removed are the plan files rm was called on
\* and lockRuns the directories `poetry lock` ran in.
callback(dryRun) ==
    [dryRun |-> dryRun,
     changedFiles |-> poetryLocks \o (IF ~dryRun /\ tree.root THEN <<Root>> ELSE <<>>),
     deletedFiles |-> removedByCallbacks(dryRun),
     removed |-> removedByCallbacks(dryRun),
     lockRuns |-> lockedByCallback(dryRun)]

\* The release command invokes the callback, with dryRun or without.
Callback ==
    /\ pc = "returned"
    /\ \E dryRun \in BOOLEAN :
        /\ \A i \in 1..Len(calls) : calls[i].dryRun # dryRun
        /\ calls' = Append(calls, callback(dryRun))
    /\ UNCHANGED <<options, tree, pc, projects, idx, currentVersion,
                   currentVersionResolvedFromFallback, latestMatchingGitTag, specifier,
                   newVersion, versionData, projectToDependencyBumps, poetryLocks,
                   deleteVersionPlanCallbacks, tree0, options0, unpreserved, adder, runner, logger, console, writeLog, resolved>>

Next ==
    \/ Validate
    \/ ResolveCurrentVersion
    \/ ResolveSpecifier
    \/ RecordVersionData
    \/ WriteNewVersion
    \/ UpdateInBatch
    \/ UpdateOutside
    \/ UpdateTransitive
    \/ Return
    \/ Callback

\* ------------------------------------------------------------------ the ECS remote runner
\* EcsRemoteRunner.run (./ecs, exercised by its test suite): the run is a fixed
\* sequence of steps, each issuing commands to a mocked client or process and
\* continuing, or rejecting, on the mock's answer.

\* One issued command and what the mock answered.
Command(name, answer) == [command |-> name, answer |-> answer]

Issue(cs) == commands' = commands \o cs

\* run() rejects at once: nothing has been registered, so nothing is cleaned up.
Reject ==
    /\ step' = "settled"
    /\ outcome' = "rejected"
    /\ UNCHANGED error

Continue(next) ==
    /\ step' = next
    /\ UNCHANGED <<error, outcome>>

DescribeRepositoriesAnswers == {"ok", "RepositoryNotFoundException", "Error"}

\* STS GetCallerIdentity, the two docker logins (public ECR, the account's ECR),
\* then DescribeRepositories; a missing repository is created, any other error
\* is rethrown.
Login ==
    /\ step = "login"
    /\ \E answer \in DescribeRepositoriesAnswers :
        LET asked == <<Command("GetCallerIdentity", "ok"),
                       Command("docker login public.ecr.aws", "ok"),
                       Command("docker login", "ok"),
                       Command("DescribeRepositories", answer)>>
        IN  CASE answer = "ok" -> Issue(asked) /\ Continue("bundle")
              [] answer = "RepositoryNotFoundException" ->
                    /\ Issue(Append(asked, Command("CreateRepository", "ok")))
                    /\ Continue("bundle")
              [] OTHER -> Issue(asked) /\ Reject
    /\ UNCHANGED <<options, tree, pc, projects, idx, currentVersion,
                   currentVersionResolvedFromFallback, latestMatchingGitTag, specifier,
                   newVersion, versionData, projectToDependencyBumps, poetryLocks,
                   deleteVersionPlanCallbacks, tree0, options0, unpreserved, adder, writeLog, resolved, calls,
                   logger, console>>

\* The remote directory, the Dockerfile, and the two esbuild bundles (wrapper and
\* migration).
Bundle ==
    /\ step = "bundle"
    /\ Issue(<<Command("mkdirSync", "ok"), Command("copyFileSync", "ok"),
               Command("esbuild", "ok"), Command("esbuild", "ok")>>)
    /\ Continue("build")
    /\ UNCHANGED <<options, tree, pc, projects, idx, currentVersion,
                   currentVersionResolvedFromFallback, latestMatchingGitTag, specifier,
                   newVersion, versionData, projectToDependencyBumps, poetryLocks,
                   deleteVersionPlanCallbacks, tree0, options0, unpreserved, adder, writeLog, resolved, calls,
                   logger, console>>

\* The exit statuses the spawn mock returns.
SpawnStatuses == {0, 9}

spawnSucceededWhateverTheStatus(status) == TRUE

\* A docker command succeeded when its exit status is 0.
spawnSucceeded(status) == status = 0

\* docker build, docker tag, docker push: each is spawned once and a non-zero
\* status rejects.
Docker(at, name, next) ==
    /\ step = at
    /\ \E status \in SpawnStatuses :
        /\ Issue(<<Command(name, status)>>)
        /\ IF spawnSucceeded(status) THEN Continue(next) ELSE Reject
    /\ UNCHANGED <<options, tree, pc, projects, idx, currentVersion,
                   currentVersionResolvedFromFallback, latestMatchingGitTag, specifier,
                   newVersion, versionData, projectToDependencyBumps, poetryLocks,
                   deleteVersionPlanCallbacks, tree0, options0, unpreserved, adder, writeLog, resolved, calls,
                   logger, console>>

DockerBuild == Docker("build", "docker build", "tag")

DockerTag == Docker("tag", "docker tag", "push")

DockerPush == Docker("push", "docker push", "logGroup")

CreateLogGroupAnswers == {"ok", "ResourceAlreadyExistsException", "Error"}

\* CreateLogGroup: an existing log group is fine, any other error is rethrown.
CreateLogGroup ==
    /\ step = "logGroup"
    /\ \E answer \in CreateLogGroupAnswers :
        /\ Issue(<<Command("CreateLogGroup", answer)>>)
        /\ IF answer \in {"ok", "ResourceAlreadyExistsException"}
           THEN Continue("register")
           ELSE Reject
    /\ UNCHANGED <<options, tree, pc, projects, idx, currentVersion,
                   currentVersionResolvedFromFallback, latestMatchingGitTag, specifier,
                   newVersion, versionData, projectToDependencyBumps, poetryLocks,
                   deleteVersionPlanCallbacks, tree0, options0, unpreserved, adder, writeLog, resolved, calls,
                   logger, console>>

RegisterTaskDefinition ==
    /\ step = "register"
    /\ Issue(<<Command("RegisterTaskDefinition", "ok")>>)
    /\ Continue("runTask")
    /\ UNCHANGED <<options, tree, pc, projects, idx, currentVersion,
                   currentVersionResolvedFromFallback, latestMatchingGitTag, specifier,
                   newVersion, versionData, projectToDependencyBumps, poetryLocks,
                   deleteVersionPlanCallbacks, tree0, options0, unpreserved, adder, writeLog, resolved, calls,
                   logger, console>>

\* The error is thrown only after the cleanup.
Fail(message) ==
    /\ step' = "cleanup"
    /\ error' = message
    /\ UNCHANGED outcome

failWithoutCleanup(message) == Reject

\* 'Failed to run migration ...: no tasks returned'.
noTasksReturned(message) == Fail(message)

\* RunTask answers with the started tasks (one, or none).
RunTask ==
    /\ step = "runTask"
    /\ \E tasks \in {0, 1} :
        /\ Issue(<<Command("RunTask", tasks)>>)
        /\ IF tasks = 0 THEN noTasksReturned("no tasks returned") ELSE Continue("poll")
    /\ UNCHANGED <<options, tree, pc, projects, idx, currentVersion,
                   currentVersionResolvedFromFallback, latestMatchingGitTag, specifier,
                   newVersion, versionData, projectToDependencyBumps, poetryLocks,
                   deleteVersionPlanCallbacks, tree0, options0, unpreserved, adder, writeLog, resolved, calls,
                   logger, console>>

TaskStatuses == {"PENDING", "RUNNING", "STOPPED"}

GetLogEventsAnswers == {"events", "ResourceNotFoundException", "Error"}

\* The DescribeTasks commands issued so far.
Polls == Len(SelectSeq(commands, LAMBDA c : c.command = "DescribeTasks"))

exitCodeIgnored(exitCode) == "none"

\* 'task exited with non-zero exit code N'.
taskError(exitCode) == IF exitCode = 0 THEN "none" ELSE "non-zero exit code"

\* One round of the polling loop: DescribeTasks, then GetLogEvents for the task's
\* log stream (a failure to fetch the events is swallowed, with a warning unless
\* the stream does not exist yet); the loop ends when the task is STOPPED.
Poll ==
    /\ step = "poll"
    /\ \E lastStatus \in TaskStatuses, exitCode \in SpawnStatuses,
          logs \in GetLogEventsAnswers :
        /\ Polls + 1 = MaxPolls => lastStatus = "STOPPED"
        /\ Issue(<<Command("DescribeTasks",
                           [lastStatus |-> lastStatus, exitCode |-> exitCode]),
                   Command("GetLogEvents", logs)>>)
        /\ IF lastStatus = "STOPPED"
           THEN step' = "cleanup" /\ error' = taskError(exitCode)
           ELSE step' = "poll" /\ UNCHANGED error
    /\ UNCHANGED outcome
    /\ UNCHANGED <<options, tree, pc, projects, idx, currentVersion,
                   currentVersionResolvedFromFallback, latestMatchingGitTag, specifier,
                   newVersion, versionData, projectToDependencyBumps, poetryLocks,
                   deleteVersionPlanCallbacks, tree0, options0, unpreserved, adder, writeLog, resolved, calls,
                   logger, console>>

\* The log group and the task definition are removed, then run() settles.
Cleanup ==
    /\ step = "cleanup"
    /\ Issue(<<Command("DeleteLogGroup", "ok"), Command("DeregisterTaskDefinition", "ok")>>)
    /\ step' = "settled"
    /\ outcome' = IF error = "none" THEN "resolved" ELSE "rejected"
    /\ UNCHANGED error
    /\ UNCHANGED <<options, tree, pc, projects, idx, currentVersion,
                   currentVersionResolvedFromFallback, latestMatchingGitTag, specifier,
                   newVersion, versionData, projectToDependencyBumps, poetryLocks,
                   deleteVersionPlanCallbacks, tree0, options0, unpreserved, adder, writeLog, resolved, calls,
                   logger, console>>

EcsRemoteRunner ==
    \/ Login
    \/ Bundle
    \/ DockerBuild
    \/ DockerTag
    \/ DockerPush
    \/ CreateLogGroup
    \/ RegisterTaskDefinition
    \/ RunTask
    \/ Poll
    \/ Cleanup

\* A runner that has been constructed and not run yet.
InitRunner ==
    /\ step = "login"
    /\ commands = <<>>
    /\ error = "none"
    /\ outcome = "pending"

\* ------------------------------------------------------------------ the add executor
\* String.prototype.split(' ') on the args the executor is given.
split(args) ==
    CASE args = "--group dev" -> <<"--group", "dev">>
      [] args = "--optional" -> <<"--optional">>
      [] OTHER -> <<args>>

\* Lines 29-31: the arguments of `poetry`; args is "" when it is absent or empty,
\* and adds none then.
installArgs(rootPyprojectToml) ==
    <<"add", addOptions.name>>
        \o (IF addOptions.args # "" THEN split(addOptions.args) ELSE <<>>)
        \o (IF rootPyprojectToml THEN <<"--lock">> ELSE <<>>)

\* The exit status of the spawned `poetry add`: 0, or a failure.
SpawnSyncStatuses == {0, 1}

\* Lines 49-51 and 54-56: what the executor returns.
Returned(success) == [success |-> success]

\* The executor has not returned yet; it has thrown instead of returning.
Pending == [pending |-> TRUE]
Thrown == [thrown |-> TRUE]

\* Lines 9-58: the executor, which runs to its end without yielding.  chdir
\* (line 14) is outside the try and throws when the workspace root is no
\* directory; updateLocalProject and updateDependencyTree may throw; the value
\* spawnSync returns (line 36) is not looked at.
executor ==
    /\ result = Pending
    /\ \E status \in SpawnSyncStatuses, localThrows \in BOOLEAN, treeThrows \in BOOLEAN :
        LET projectConfig == context.projects[context.projectName]
            rootPyprojectToml == context.rootPyprojectToml
            caught == /\ result' = Returned(FALSE)
                      /\ UNCHANGED <<spawned, dependencyTree>>
            updated(spawns) == IF treeThrows
                               THEN /\ spawned' = spawns
                                    /\ result' = Returned(FALSE)
                                    /\ UNCHANGED dependencyTree
                               ELSE /\ spawned' = spawns
                                    /\ dependencyTree' = "updated"
                                    /\ result' = Returned(TRUE)
        IN  IF ~context.rootIsDirectory
            THEN result' = Thrown /\ UNCHANGED <<spawned, dependencyTree>>
            ELSE IF addOptions.local
            THEN IF localThrows THEN caught ELSE updated(spawned)
            ELSE IF projectConfig = Undefined THEN caught
            ELSE updated(Append(spawned,
                    [executable |-> "poetry",
                     args |-> installArgs(rootPyprojectToml),
                     cwd |-> projectConfig.root,
                     status |-> status]))
    /\ UNCHANGED <<options, tree, pc, projects, idx, currentVersion,
                   currentVersionResolvedFromFallback, latestMatchingGitTag, specifier,
                   newVersion, versionData, projectToDependencyBumps, poetryLocks,
                   deleteVersionPlanCallbacks, tree0, options0, unpreserved, runner,
                   writeLog, resolved, calls, logger, console, addOptions, context>>

\* An executor that has not been called: the options and the context of a call
\* that adds nothing.
NoAdd ==
    [options |-> [name |-> "numpy", local |-> FALSE, args |-> Null],
     context |-> [rootIsDirectory |-> TRUE, rootPyprojectToml |-> FALSE,
                  projectName |-> "app",
                  projects |-> [n \in {"app"} |-> [root |-> "apps/app"]]]]

InitExecutor(call) ==
    /\ addOptions = call.options
    /\ context = call.context
    /\ spawned = <<>>
    /\ dependencyTree = "stale"
    /\ result = Pending

\* ------------------------------------------------------------------ specifications
\* The generator before a run with the given options and tree.
InitGenerator(run) ==
        /\ options = run.options
        /\ tree = run.tree
        /\ tree0 = run.tree
        /\ options0 = run.options
        /\ pc = "start"
        /\ projects = <<>>
        /\ idx = 0
        /\ currentVersion = Null
        /\ currentVersionResolvedFromFallback = FALSE
        /\ latestMatchingGitTag = Null
        /\ specifier = Undefined
        /\ newVersion = Null
        /\ versionData = [p \in Projects |-> Null]
        /\ projectToDependencyBumps = [p \in Projects |-> {}]
        /\ poetryLocks = <<>>
        /\ deleteVersionPlanCallbacks = <<>>
        /\ writeLog = <<>>
        /\ resolved = <<>>
        /\ calls = <<>>
        /\ logger = Null
        /\ console = <<>>
        /\ unpreserved = Unpreserved(run)

\* The state after construction, for a run with the given options and tree.
InitFrom(runs) ==
    \E run \in runs :
        /\ InitGenerator(run)
        /\ InitRunner
        /\ InitExecutor(NoAdd)

UpdateDependentsModes == {"never", "auto"}
Relationships == {"independent", "fixed"}

\* SpecGraph: every workspace of NumProjects projects and at most MaxEdges local
\* edges, released with the explicit specifier 'patch' from the versions on disk.
GraphRuns(n, e, k) ==
    UNION {
        {[options |-> [DefaultOptions EXCEPT
                            !.projects = sel,
                            !.specifier = Keyword("patch"),
                            !.updateDependents = ud,
                            !.projectsRelationship = rel],
          tree |-> MakeTree(g, AllRelease, "^", FALSE)] :
            g \in Graphs(n, e),
            rel \in Relationships,
            sel \in Selections(k, ud)} :
        ud \in UpdateDependentsModes}

InitGraph == InitFrom(GraphRuns(NumProjects, MaxEdges, MaxSelected))

SpecGraph == InitGraph /\ [][Next]_vars

\* Spec: the workspaces of OptProjects projects and at most OptEdges edges, of
\* which the first one to OptSelected are released, run with an explicit
\* specifier over the start versions and preids (from the versions on disk),
\* with the prompt or conventional commits over the current-version resolvers,
\* from version plans with and without a root manifest, or with configuration
\* errors.
Workspaces(n, e, k) ==
    {[graph |-> g, rel |-> rel, ud |-> ud, sel |-> Ascending(j)] :
        g \in Graphs(n, e),
        rel \in Relationships,
        ud \in UpdateDependentsModes,
        j \in 1..k}

ExplicitSpecifiers ==
    {Keyword("patch"), Keyword("prerelease"),
     Exact(Version(2, 0, 0, <<>>), FALSE), Exact(Version(0, 5, 0, <<>>), TRUE), Invalid}

Preids == {Null, [id |-> "alpha"], [id |-> "beta"]}

ExplicitRuns(n, e, k) ==
    {[options |-> [DefaultOptions EXCEPT
                        !.projects = w.sel,
                        !.updateDependents = w.ud,
                        !.projectsRelationship = w.rel,
                        !.specifier = spec,
                        !.preid = preid],
      tree |-> MakeTree(w.graph, versions, "^", FALSE)] :
        w \in Workspaces(n, e, k),
        spec \in ExplicitSpecifiers,
        preid \in Preids,
        versions \in {AllRelease, AllBeta, LastVersionless(n)}}

ResolverRuns(n, e, k) ==
    {[options |-> [DefaultOptions EXCEPT
                        !.projects = w.sel,
                        !.updateDependents = w.ud,
                        !.projectsRelationship = w.rel,
                        !.specifierSource = source,
                        !.currentVersionResolver = resolver,
                        !.fallbackCurrentVersionResolver = fallback],
      tree |-> MakeTree(w.graph, versions, "~", FALSE)] :
        w \in Workspaces(n, e, k),
        source \in {"prompt", "conventional-commits"},
        resolver \in {"disk", "git-tag", "registry"},
        fallback \in {"undefined", "disk"},
        versions \in {AllRelease, AllBeta}}

\* A plan's id is its place in the list (its relativePath).
ProjectsPlans(bumps) ==
    [i \in 1..Len(bumps) |-> [id |-> i, projectVersionBumps |-> bumps[i]]]

GroupPlans(bumps) ==
    [i \in 1..Len(bumps) |-> [id |-> i, groupVersionBump |-> bumps[i]]]

\* Runs from version plans: no plan or one plan that bumps the first project,
\* with and without the versionPlans setting, deleteVersionPlans and a root manifest.
OnePlan(rel) ==
    IF rel = "independent"
    THEN ProjectsPlans(<<[p \in Projects |-> IF p = 1 THEN "minor" ELSE ""]>>)
    ELSE GroupPlans(<<"minor">>)

PlanOptionRuns(n, e, k) ==
    {[options |-> [DefaultOptions EXCEPT
                        !.projects = w.sel,
                        !.updateDependents = w.ud,
                        !.projectsRelationship = w.rel,
                        !.specifierSource = "version-plans",
                        !.versionPlans = enabled,
                        !.resolvedVersionPlans = IF planned THEN OnePlan(w.rel) ELSE <<>>,
                        !.deleteVersionPlans = delete],
      tree |-> MakeTree(w.graph, AllRelease, "^", root)] :
        w \in Workspaces(n, e, k),
        enabled \in BOOLEAN,
        planned \in BOOLEAN,
        delete \in BOOLEAN,
        root \in BOOLEAN}

\* Runs with configuration errors: a specifierSource the generator does not
\* know, 'version-plans' without the versionPlans setting or
\* 'conventional-commits' with the 'disk' resolver, with and without an invalid
\* versionPrefix, and with no, a valid or an invalid specifier.
ConfigurationRuns(n, e, k) ==
    {[options |-> [DefaultOptions EXCEPT
                        !.projects = w.sel,
                        !.updateDependents = w.ud,
                        !.projectsRelationship = w.rel,
                        !.specifier = spec,
                        !.specifierSource = source,
                        !.versionPrefix = prefix],
      tree |-> MakeTree(w.graph, AllRelease, "^", FALSE)] :
        w \in Workspaces(n, e, k),
        spec \in {Null, Keyword("patch"), Invalid},
        source \in {"version-plans", "unknown", "conventional-commits"},
        prefix \in {"auto", "?"}}

\* Runs with logUnchangedProjects switched on and off, from the commits since
\* the git tag, with and without the 'disk' fallback, and with or without the
\* manifest of the last project.
LoggingRuns(n, e, k) ==
    {[options |-> [DefaultOptions EXCEPT
                        !.projects = w.sel,
                        !.updateDependents = w.ud,
                        !.projectsRelationship = w.rel,
                        !.specifierSource = "conventional-commits",
                        !.currentVersionResolver = "git-tag",
                        !.fallbackCurrentVersionResolver = fallback,
                        !.logUnchangedProjects = logUnchangedProjects],
      tree |-> [MakeTree(w.graph, AllRelease, "^", FALSE) EXCEPT
                        !.manifest[n].exists = exists]] :
        w \in Workspaces(n, e, k),
        fallback \in {"undefined", "disk"},
        logUnchangedProjects \in BOOLEAN,
        exists \in BOOLEAN}

\* Runs with a configured versionPrefix over manifests whose entries carry
\* another operator, or none.
PrefixRuns(n, e, k) ==
    {[options |-> [DefaultOptions EXCEPT
                        !.projects = w.sel,
                        !.updateDependents = w.ud,
                        !.projectsRelationship = w.rel,
                        !.specifier = Keyword("patch"),
                        !.versionPrefix = prefix],
      tree |-> MakeTree(w.graph, AllRelease, style, FALSE)] :
        w \in Workspaces(n, e, k),
        prefix \in {"auto", "", "~", "="},
        style \in {"^", "~", "", "="}}

Init ==
    InitFrom(ExplicitRuns(OptProjects, OptEdges, OptSelected)
                \cup ResolverRuns(OptProjects, OptEdges, OptSelected)
                \cup PlanOptionRuns(OptProjects, OptEdges, OptSelected)
                \cup ConfigurationRuns(OptProjects, OptEdges, OptSelected))

Spec == Init /\ [][Next]_vars

InitLogging == InitFrom(LoggingRuns(OptProjects, OptEdges, OptSelected))

SpecLogging == InitLogging /\ [][Next]_vars

InitPrefix == InitFrom(PrefixRuns(OptProjects, OptEdges, OptSelected))

SpecPrefix == InitPrefix /\ [][Next]_vars

\* SpecPlans: the workspaces of PlanProjects projects run from version plans: at
\* most MaxPlans plans, each naming one project or all of them (independent) or
\* the group (fixed).
ProjectsPlanBumps(n) ==
    {[p \in Projects |-> IF p \in named THEN bump ELSE ""] :
        named \in {{p} : p \in 1..n} \cup {1..n},
        bump \in ReleaseTypes}

RECURSIVE SeqsUpTo(_, _)
SeqsUpTo(S, n) ==
    IF n = 0 THEN {<<>>}
    ELSE LET shorter == SeqsUpTo(S, n - 1)
         IN  shorter \cup {Append(q, x) : q \in shorter, x \in S}

PlanLists(n, m) ==
    {[rel |-> "independent", plans |-> ProjectsPlans(b)] :
        b \in SeqsUpTo(ProjectsPlanBumps(n), m)}
    \cup {[rel |-> "fixed", plans |-> GroupPlans(b)] : b \in SeqsUpTo(ReleaseTypes, m)}

PlanRuns(n, e, m) ==
    {[options |-> [DefaultOptions EXCEPT
                        !.projects = Ascending(j),
                        !.updateDependents = ud,
                        !.projectsRelationship = l.rel,
                        !.specifierSource = "version-plans",
                        !.versionPlans = TRUE,
                        !.resolvedVersionPlans = l.plans,
                        !.deleteVersionPlans = delete],
      tree |-> MakeTree(g, versions, "^", FALSE)] :
        g \in Graphs(n, e),
        j \in 1..n,
        ud \in UpdateDependentsModes,
        l \in PlanLists(n, m),
        delete \in BOOLEAN,
        versions \in {AllRelease, AllBeta}}

InitPlans == InitFrom(PlanRuns(PlanProjects, PlanEdges, MaxPlans))

SpecPlans == InitPlans /\ [][Next]_vars

\* SpecChain: every workspace of ChainProjects projects and at most ChainEdges
\* local edges, of which the first one to ChainProjects are released from version
\* plans, with one plan that bumps the first project (or the group).
ChainRuns(n, e) ==
    {[options |-> [DefaultOptions EXCEPT
                        !.projects = Ascending(j),
                        !.updateDependents = ud,
                        !.projectsRelationship = rel,
                        !.specifierSource = "version-plans",
                        !.versionPlans = TRUE,
                        !.resolvedVersionPlans = OnePlan(rel)],
      tree |-> MakeTree(g, AllRelease, "^", FALSE)] :
        g \in Graphs(n, e),
        j \in 1..n,
        ud \in UpdateDependentsModes,
        rel \in Relationships}

InitChain == InitFrom(ChainRuns(ChainProjects, ChainEdges))

SpecChain == InitChain /\ [][Next]_vars

\* The generator is a sequential program: it takes its next step as long as it
\* has one.
SpecChainFair == SpecChain /\ WF_vars(Next)

\* SpecPreserve: every workspace of PreserveProjects projects and at most
\* PreserveEdges local edges, the last project with or without a version, of
\* which the first ones, all but the last at most, are released with the
\* explicit specifier 'patch' and preserveLocalDependencyProtocols set.
PreserveRuns(n, e) ==
    {[options |-> [DefaultOptions EXCEPT
                        !.projects = Ascending(j),
                        !.specifier = Keyword("patch"),
                        !.updateDependents = ud,
                        !.projectsRelationship = rel,
                        !.preserveLocalDependencyProtocols = TRUE],
      tree |-> MakeTree(g, versions, "^", FALSE)] :
        g \in Graphs(n, e),
        j \in 1..(n - 1),
        ud \in UpdateDependentsModes,
        rel \in Relationships,
        versions \in {AllRelease, LastVersionless(n)}}

InitPreserve == InitFrom(PreserveRuns(PreserveProjects, PreserveEdges))

SpecPreserve == InitPreserve /\ [][Next]_vars

\* One run of EcsRemoteRunner.run, for every answer the mocks can give; the
\* generator is not run.
InitEcs == InitFrom({[options |-> DefaultOptions, tree |-> MakeTree({}, AllRelease, "^", FALSE)]})

SpecEcs == InitEcs /\ [][EcsRemoteRunner]_vars

\* The calls of the add executor: a package of the registry or a project of the
\* workspace, with and without extra arguments, for a project the workspace
\* knows or does not know, under a workspace root that is a directory or is not.
AddCalls ==
    {[options |-> [name |-> name, local |-> local, args |-> args],
      context |-> [rootIsDirectory |-> isDirectory,
                   rootPyprojectToml |-> rootPyprojectToml,
                   projectName |-> projectName,
                   projects |-> [n \in {"app", "gone"} |->
                                    IF n = "app" THEN [root |-> "apps/app"]
                                    ELSE Undefined]]] :
        name \in {"numpy", "lib"},
        local \in BOOLEAN,
        args \in {"", "--optional", "--group dev"},
        isDirectory \in BOOLEAN,
        rootPyprojectToml \in BOOLEAN,
        projectName \in {"app", "gone"}}

\* One call of the add executor; neither the generator nor the runner is run.
InitAdd ==
    /\ InitGenerator([options |-> DefaultOptions,
                      tree |-> MakeTree({}, AllRelease, "^", FALSE)])
    /\ InitRunner
    /\ \E call \in AddCalls : InitExecutor(call)

SpecAdd == InitAdd /\ [][executor]_vars

\* ------------------------------------------------------------------ properties
\* The turns that are over, and the turn that has just ended.
TurnOver(p) == \E i \in 1..Len(projects) : i < idx /\ projects[i] = p

JustFinished(p) ==
    /\ pc \in {"version", "format"}
    /\ idx > 1
    /\ projects[idx - 1] = p

\* The project's own bump, as written to its manifest in its turn.
OwnWrites(p) == {i \in DOMAIN writeLog : writeLog[i].project = p /\ writeLog[i].phase = "own"}

Bumped(p) == OwnWrites(p) # {}

\* The forced bumps of a project: the writes of updateDependentProjectAndAddToVersionData
\* called with a forceVersionBump.
ForcedBumps(p) ==
    {i \in DOMAIN writeLog :
        /\ writeLog[i].project = p
        /\ writeLog[i].phase # "own"
        /\ writeLog[i].spec # Null}

ForcedBumpsIn(p, turn) == {i \in ForcedBumps(p) : writeLog[i].turn = turn}

\* The version a project had when the given turn first touched it.
VersionBefore(p, turn) ==
    LET touched == {i \in DOMAIN writeLog :
                        writeLog[i].project = p /\ writeLog[i].turn = turn}
    IN  IF touched = {} THEN tree.manifest[p].version
        ELSE writeLog[CHOOSE i \in touched : \A j \in touched : i <= j].from

\* C1: when the turn of a selected project P has bumped it to V under
\* updateDependents 'auto', every direct dependent D outside the batch (with a
\* version of its own and a version string as its entry on P) has that entry
\* rewritten to <its prefix><V> and its version incremented by exactly one patch
\* bump.
C1_OutsideDependentsBumpedOnce ==
    \A P \in Projects :
        (JustFinished(P) /\ Bumped(P) /\ options.updateDependents = "auto"
            /\ ~options.preserveLocalDependencyProtocols
            /\ options.versionPrefix = "auto")
        => \A e \in Range(dependentProjectsOutsideCurrentBatch(P)) :
            LET D == e[1]
                before == tree0.manifest[D].deps[P]
            IN  (tree0.manifest[D].version # Null /\ HasVersionString(before))
                => /\ tree.manifest[D].deps[P] = Entry(before.prefix, tree.manifest[P].version)
                   /\ Cardinality(ForcedBumpsIn(D, P)) = 1
                   /\ tree.manifest[D].version = inc(VersionBefore(D, P), "patch", Null)

\* The local edges <<source, target>> of the workspace and their chains.
Edges == LocalEdges(tree0)

Chains == Closure(Edges, NumProjects)

\* C3: for projects A and B that depend on each other, under updateDependents
\* 'auto' the turn that bumps A forces at most one bump of B and none of A, and
\* over the whole run neither of them is force-bumped more than once.
C3_CircularPairForcedOnce ==
    \A A \in Projects : \A B \in Projects \ {A} :
        (options.updateDependents = "auto" /\ <<A, B>> \in Edges /\ <<B, A>> \in Edges)
        => /\ Bumped(A) => /\ Cardinality(ForcedBumpsIn(B, A)) <= 1
                           /\ ForcedBumpsIn(A, A) = {}
           /\ Cardinality(ForcedBumps(A)) <= 1
           /\ Cardinality(ForcedBumps(B)) <= 1

\* The project's specifier has been resolved and its bump decided.
Decided(p) ==
    \/ TurnOver(p)
    \/ (pc \in {"record", "write", "inbatch", "outside", "transitive"} /\ Project = p)

\* C4: with updateDependents other than 'never', for every local edge <<source,
\* target>> between two selected projects (and off every cycle), once the source's
\* specifier is resolved the target's turn is over and the target's version does
\* not change any more.
C4_TargetFinalBeforeSource ==
    [][\A e \in Edges :
        (/\ options.updateDependents # "never"
         /\ e[1] \in Range(options.projects)
         /\ e[2] \in Range(options.projects)
         /\ <<e[2], e[1]>> \notin Chains
         /\ Decided(e[1]))
        => /\ TurnOver(e[2])
           /\ tree'.manifest[e[2]].version = tree.manifest[e[2]].version]_vars

\* C5: under updateDependents 'auto' (independent projects), at the end of the
\* run every project that depends on a bumped selected project P through a chain
\* of local edges has a new version and a rewritten entry on that chain.
C5_ChainsOfAnyLength ==
    \A P \in Projects : \A X \in Projects \ {P} :
        (/\ pc = "returned"
         /\ options.updateDependents = "auto"
         /\ options.projectsRelationship = "independent"
         /\ Bumped(P)
         /\ tree0.manifest[X].version # Null
         /\ <<X, P>> \in Chains)
        => /\ tree.manifest[X].version # tree0.manifest[X].version
           /\ \E Y \in Projects :
                /\ <<X, Y>> \in Edges
                /\ (Y = P \/ <<Y, P>> \in Chains)
                /\ tree.manifest[X].deps[Y] # tree0.manifest[X].deps[Y]

\* The specifier behind a project's versionData record: that of the last write
\* which bumped the project (its own, or a forced one).
BumpingWrites(p) ==
    {i \in DOMAIN writeLog : writeLog[i].project = p /\ writeLog[i].spec # Null}

Applied(p) == writeLog[CHOOSE i \in BumpingWrites(p) : \A j \in BumpingWrites(p) : j <= i].spec

HasBothVersions(p) ==
    /\ versionData[p] # Null
    /\ versionData[p].newVersion # Null
    /\ versionData[p].currentVersion # Null

\* 'prerelease' with a preid that sorts below the identifier of the current
\* prerelease restarts at <preid>.0, below the current version.
SwitchesToLowerPreid(spec, current) ==
    /\ spec.keyword = "prerelease"
    /\ options.preid # Null
    /\ Len(current.pre) = 2
    /\ PreidRank(options.preid.id) < PreidRank(current.pre[1])

PlanBumpFor(i, p) ==
    IF options.projectsRelationship = "independent"
    THEN PlanBump(options.resolvedVersionPlans[i], p)
    ELSE options.resolvedVersionPlans[i].groupVersionBump

PlansFor(p) == {i \in DOMAIN options.resolvedVersionPlans : PlanBumpFor(i, p) # ""}

Planned(i, r) == inc(r.currentVersion, PlanBumpFor(i, r.project), Null)

\* The first plan among those that give the greatest version.
BestPlan(r) ==
    CHOOSE i \in PlansFor(r.project) :
        /\ \A j \in PlansFor(r.project) : ~gt(Planned(j, r), Planned(i, r))
        /\ \A j \in PlansFor(r.project) : j < i => gt(Planned(i, r), Planned(j, r))

\* C6: under 'version-plans' the specifier resolved for a project is the bump of
\* the first plan, among those that count for it, whose application to the
\* current version gives the semver-greatest version; when no plan names the
\* project the plans resolve no specifier.
C6_PlanMaxSelection ==
    \A k \in DOMAIN resolved :
        LET r == resolved[k]
        IN  r.source = "version-plans"
            => IF PlansFor(r.project) = {}
               THEN r.raw = Null
               ELSE /\ r.raw = Keyword(PlanBumpFor(BestPlan(r), r.project))
                    /\ r.final = r.raw

\* A resolution over two plans that tie on the greatest version with different
\* bumps, and one that a later plan wins.
C6_Witness ==
    /\ \E k \in DOMAIN resolved :
        LET r == resolved[k]
        IN  /\ r.source = "version-plans"
            /\ \E i \in PlansFor(r.project) : \E j \in PlansFor(r.project) :
                /\ i < j
                /\ PlanBumpFor(i, r.project) # PlanBumpFor(j, r.project)
                /\ Planned(i, r) = Planned(j, r)
                /\ BestPlan(r) = i
    /\ \E k \in DOMAIN resolved :
        LET r == resolved[k]
        IN  /\ r.source = "version-plans"
            /\ \E i \in PlansFor(r.project) : i > 1 /\ BestPlan(r) = i

\* C7: a turn whose specifier is null records {currentVersion, newVersion: null,
\* dependentProjects} for the project and ends; no step of it writes a manifest
\* or registers a dependency bump.
C7_NullSpecifierWritesNothing ==
    [][(pc \in {"version", "specifier"} \/ (pc = "record" /\ specifier = Null))
        => /\ tree' = tree
           /\ writeLog' = writeLog
           /\ poetryLocks' = poetryLocks
           /\ projectToDependencyBumps' = projectToDependencyBumps
           /\ (pc = "record" /\ specifier = Null /\ pc' # "exited")
                => /\ versionData' = [versionData EXCEPT ![Project] =
                            [currentVersion |-> currentVersion,
                             newVersion |-> Null,
                             dependentProjects |->
                                SelectSeq(allDependentProjects(Project),
                                          LAMBDA e : options.updateDependents = "auto"
                                                        \/ isInCurrentBatch(e[1]))]]
                   /\ pc' \in {"version", "format"}
                   /\ idx' = idx + 1]_vars

\* A skipped project that has a dependent, at the end of its turn.
C7_Witness ==
    \E p \in Projects :
        /\ JustFinished(p)
        /\ specifier = Null
        /\ ~Bumped(p)
        /\ versionData[p] # Null
        /\ versionData[p].newVersion = Null
        /\ versionData[p].dependentProjects # <<>>
        /\ tree = tree0

\* C8: a call of the returned callback with dryRun: true runs no lock command
\* and deletes no version-plan file.
C8_DryRunTouchesNothing ==
    \A i \in DOMAIN calls :
        calls[i].dryRun => calls[i].lockRuns = <<>> /\ calls[i].removed = <<>>

\* A dry-run call after a run that bumped projects and resolved plans to delete.
C8_Witness ==
    \E i \in DOMAIN calls :
        /\ calls[i].dryRun
        /\ options.deleteVersionPlans
        /\ deleteVersionPlanCallbacks # <<>>
        /\ poetryLocks # <<>>
        /\ tree.root

\* C9: the changedFiles and deletedFiles of the dry-run call are the files the
\* real call of the same run changes and deletes.
C9_DryRunReportsTheRealFiles ==
    \A i \in DOMAIN calls : \A j \in DOMAIN calls :
        (calls[i].dryRun /\ ~calls[j].dryRun)
        => /\ calls[i].changedFiles = calls[j].changedFiles
           /\ calls[i].deletedFiles = calls[j].removed

\* C10: under 'conventional-commits' without explicit specifier, a project whose
\* current version is a prerelease is bumped with 'prerelease' only, to a
\* prerelease.
C10_PrereleaseStaysPrerelease ==
    (/\ pc = "inbatch"
     /\ options.specifierSource = "conventional-commits"
     /\ options.specifier = Null
     /\ prerelease(currentVersion))
    => /\ specifier = Keyword("prerelease")
       /\ prerelease(newVersion)

\* The last specifier resolution of the run.
LastResolution(log) == log[Len(log)]

FromCommitsOrPlans(r) == r.source \in {"conventional-commits", "version-plans"}

InTurn == pc \in {"record", "write", "inbatch", "outside", "transitive"}

\* C12: with updateDependents 'never' the manifest of a project outside the
\* batch (not selected, or under version plans named by no plan) is at every
\* point of the run what it was at the start, version and dependency entries;
\* the turn of a project enumerates in its warning exactly its direct dependents
\* outside the batch.
C12_NeverLeavesOutsidersAlone ==
    options.updateDependents = "never"
    => /\ \A D \in Projects :
            (D \notin Range(options.projects) \/ ~isInCurrentBatch(D))
            => tree.manifest[D] = tree0.manifest[D]
       /\ InTurn
            => Range(warnedDependents(Project))
                = {D \in Projects :
                    /\ <<D, Project>> \in Edges
                    /\ ~isInCurrentBatch(D)
                    /\ (includeAll \/ D \in Range(options.projects))}

\* The end of the turn of a bumped project under 'never': a direct dependent
\* outside the batch was warned about, and a project outside the batch depends
\* on that dependent.
C12_Witness ==
    /\ options.updateDependents = "never"
    /\ pc = "transitive"
    /\ Bumped(Project)
    /\ \E D \in Projects \ Range(options.projects) :
        \E X \in Projects \ (Range(options.projects) \cup {D}) :
            /\ D \in Range(warnedDependents(Project))
            /\ <<X, D>> \in Edges
            /\ tree.manifest[D] = tree0.manifest[D]
            /\ tree.manifest[X] = tree0.manifest[X]

\* The writes the turn of P has made to the manifest of D.
WritesInTurn(D, P) ==
    {i \in DOMAIN writeLog : writeLog[i].project = D /\ writeLog[i].turn = P}

\* The turn of P has gone through its loop over the dependents of the batch.
PastInBatchLoop(P) ==
    \/ (pc \in {"outside", "transitive"} /\ Project = P)
    \/ JustFinished(P)

\* C13: in the turn of a bumped project P, every direct dependent D of P that is
\* in the batch has its entry on P rewritten to the new version of P and P
\* registered in projectToDependencyBumps[D], and no write of P's turn, up to
\* its end, changes the version of D.
C13_InBatchDependentKeepsVersion ==
    \A P \in Projects :
        (PastInBatchLoop(P) /\ Bumped(P))
        => \A e \in Range(dependentProjectsInCurrentBatch(P)) :
            LET D == e[1]
                before == tree0.manifest[D].deps[P]
            IN  /\ \A i \in WritesInTurn(D, P) : writeLog[i].to = writeLog[i].from
                /\ P \in projectToDependencyBumps[D]
                /\ (HasVersionString(before) /\ tree0.manifest[D].version # Null)
                    => /\ HasVersionString(tree.manifest[D].deps[P])
                       /\ tree.manifest[D].deps[P].version = newVersion

\* How often a directory occurs among the lock runs of a call.
Occurrences(seq, x) == Cardinality({i \in DOMAIN seq : seq[i] = x})

\* The project's manifest was written in the run.
ManifestWritten(p) == \E i \in DOMAIN writeLog : writeLog[i].project = p

\* C14: a call of the callback with dryRun false runs the lock command exactly
\* once in the directory of every project whose manifest the run has written and
\* in no other project directory; a call with dryRun true runs it nowhere.
C14_OneLockPerChangedProject ==
    \A i \in DOMAIN calls :
        IF calls[i].dryRun
        THEN calls[i].lockRuns = <<>>
        ELSE \A p \in Projects :
                Occurrences(calls[i].lockRuns, p) = IF ManifestWritten(p) THEN 1 ELSE 0

\* The writePyprojectToml calls on a project's manifest.
ManifestWrites(p) == {i \in DOMAIN writeLog : writeLog[i].project = p}

\* C15: in a run every project's manifest is written at most once, and a call
\* of the callback removes every version-plan file at most once.
C15_ResourcesWrittenOnce ==
    /\ \A p \in Projects : Cardinality(ManifestWrites(p)) <= 1
    /\ \A i \in DOMAIN calls :
        \A plan \in Range(calls[i].removed) : Occurrences(calls[i].removed, plan) <= 1

\* The specifier sources and version prefixes of the option schema.
SpecifierSources == {"prompt", "conventional-commits", "version-plans"}

VersionPrefixes == {"auto", "", "~", "^", "="}

InvalidSpecifier(o) == o.specifier = Invalid

InvalidVersionPrefix(o) == o.versionPrefix \notin VersionPrefixes

InvalidSpecifierSource(o) == o.specifierSource \notin SpecifierSources

PlansDisabled(o) == o.specifierSource = "version-plans" /\ ~o.versionPlans

\* No manifest has been written and the run has not returned.
NoManifestWritten ==
    /\ tree = tree0
    /\ writeLog = <<>>
    /\ poetryLocks = <<>>
    /\ pc # "returned"

\* C16 (as claimed): a run given an invalid specifier, an invalid versionPrefix,
\* an invalid specifierSource or 'version-plans' with version plans disabled
\* never writes a manifest and never returns.
C16_ConfigurationErrorsAbort ==
    (\/ InvalidSpecifier(options0)
     \/ InvalidVersionPrefix(options0)
     \/ InvalidSpecifierSource(options0)
     \/ PlansDisabled(options0))
    => NoManifestWritten

\* C16 (amended): an invalid specifier or versionPrefix aborts the run at once,
\* an invalid specifierSource or disabled version plans abort it in the first
\* turn when no specifier is given (a given specifier replaces the source); in
\* both cases no manifest is written and the run never returns.
C16_ConfigurationErrorsAbortUnlessOverridden ==
    /\ (InvalidSpecifier(options0) \/ InvalidVersionPrefix(options0))
        => NoManifestWritten /\ pc \in {"start", "exited"} /\ idx = 0
    /\ (options0.specifier = Null
            /\ (InvalidSpecifierSource(options0) \/ PlansDisabled(options0)))
        => NoManifestWritten /\ pc \in {"start", "version", "specifier", "exited"} /\ idx <= 1

\* A fixed group of two selected projects, aborted in the first turn for its
\* unknown specifierSource.
C16_Witness ==
    /\ pc = "exited"
    /\ InvalidSpecifierSource(options0)
    /\ options0.specifier = Null
    /\ ~InvalidVersionPrefix(options0)
    /\ options.projectsRelationship = "fixed"
    /\ Len(projects) = 2
    /\ idx = 1
    /\ currentVersion # Null
    /\ NoManifestWritten

\* Every selected project has had its turn.
AllProcessed ==
    /\ idx = Len(projects) + 1
    /\ Range(projects) = Range(options.projects)
    /\ \A p \in Range(options.projects) : TurnOver(p) /\ versionData[p] # Null

\* C17: the callback, which alone runs the lock command and deletes plan files,
\* is called only on a run that has returned after the turn of every selected
\* project; once a fatal error has ended the run nothing happens any more: no
\* callback call, no further turn, no write.
C17_SideEffectsOnlyAfterAllTurns ==
    /\ [](calls # <<>> => pc = "returned" /\ AllProcessed)
    /\ [](pc = "exited" => calls = <<>>)
    /\ [][pc # "exited"]_vars

\* A run that fails in the turn of its second project, after the first project's
\* manifest was written and its lock directory collected.
C17_Witness ==
    /\ pc = "exited"
    /\ idx = 2
    /\ poetryLocks # <<>>
    /\ tree # tree0
    /\ calls = <<>>

\* C18: in a 'fixed' release group, with every currentVersionResolver, the
\* selected projects whose turns are over are recorded with one and the same
\* currentVersion and, where a new version is recorded, one and the same
\* newVersion.
C18_FixedGroupSharesVersions ==
    options.projectsRelationship = "fixed"
    => \A p \in Projects : \A q \in Projects :
        (TurnOver(p) /\ TurnOver(q) /\ versionData[p] # Null /\ versionData[q] # Null)
        => /\ versionData[p].currentVersion = versionData[q].currentVersion
           /\ (versionData[p].newVersion # Null /\ versionData[q].newVersion # Null)
                => versionData[p].newVersion = versionData[q].newVersion

\* Between two turns, or after the last one.
BetweenTurns == pc \in {"version", "format", "returned"}

\* The new versions versionData has recorded for a project so far: one per
\* write that bumped it.
RecordedNewVersions(p) ==
    {writeLog[i].to : i \in {j \in BumpingWrites(p) : writeLog[j].to # Null}}

\* C19: once versionData has recorded a new version for a project, the record
\* the project has at the end of every later turn holds a new version, and not
\* a semver-lower one.
C19_NewVersionNeverRegresses ==
    BetweenTurns
    => \A p \in Projects : \A v \in RecordedNewVersions(p) :
        /\ versionData[p] # Null
        /\ versionData[p].newVersion # Null
        /\ ~gt(v, versionData[p].newVersion)

\* The selected project is named by no plan of an independent group.
Unplanned(D) ==
    /\ D \in Range(options.projects)
    /\ options.projectsRelationship = "independent"
    /\ PlansFor(D) = {}

\* C20: under 'version-plans' with updateDependents 'auto', a selected project
\* D that no plan names and that depends on a bumped selected project P (off
\* every cycle) is not force-bumped in any turn; once its own turn is over it has
\* been bumped exactly once in the run, by 'patch', in that turn.
C20_UnplannedDependentBumpedOnce ==
    \A P \in Projects : \A D \in Projects \ {P} :
        (/\ options0.specifierSource = "version-plans"
         /\ options0.specifier = Null
         /\ options.updateDependents = "auto"
         /\ <<D, P>> \in Edges
         /\ <<P, D>> \notin Chains
         /\ Unplanned(D)
         /\ Bumped(P))
        => /\ ForcedBumps(D) = {}
           /\ (TurnOver(D) /\ TurnOver(P))
                => /\ Cardinality(BumpingWrites(D)) = 1
                   /\ \A i \in BumpingWrites(D) :
                        /\ writeLog[i].phase = "own"
                        /\ writeLog[i].spec = Keyword("patch")
                        /\ writeLog[i].to = inc(tree0.manifest[D].version, "patch", Null)

\* ------------------------------------------------------------------ EcsRemoteRunner.run
\* The place of a command in the order of run(): 1 registry login and repository
\* check, 2 bundling, 3 docker build, 4 docker tag, 5 docker push, 6 log-group
\* creation, 7 task-definition registration, 8 RunTask, 9 polling, 10 cleanup.
Stage(name) ==
    CASE name \in {"GetCallerIdentity", "docker login public.ecr.aws", "docker login",
                   "DescribeRepositories", "CreateRepository"} -> 1
      [] name \in {"mkdirSync", "copyFileSync", "esbuild"} -> 2
      [] name = "docker build" -> 3
      [] name = "docker tag" -> 4
      [] name = "docker push" -> 5
      [] name = "CreateLogGroup" -> 6
      [] name = "RegisterTaskDefinition" -> 7
      [] name = "RunTask" -> 8
      [] name \in {"DescribeTasks", "GetLogEvents"} -> 9
      [] name \in {"DeleteLogGroup", "DeregisterTaskDefinition"} -> 10

Issued(name) == SelectSeq(commands, LAMBDA c : c.command = name)

\* A command of a step before the registration of the task definition that failed.
FailedBeforeRegistration(c) ==
    \/ /\ c.command = "DescribeRepositories"
       /\ c.answer \notin {"ok", "RepositoryNotFoundException"}
    \/ /\ c.command \in {"docker build", "docker tag", "docker push"}
       /\ c.answer # 0
    \/ /\ c.command = "CreateLogGroup"
       /\ c.answer \notin {"ok", "ResourceAlreadyExistsException"}

\* C21: EcsRemoteRunner.run issues its commands in the fixed order of its steps
\* (login and repository check, bundling, docker build, tag, push, log-group
\* creation, task-definition registration, RunTask, polling, cleanup), and a
\* command that fails before the registration (DescribeRepositories with an error
\* other than RepositoryNotFoundException, a docker command with a non-zero
\* status, CreateLogGroup with an error other than ResourceAlreadyExistsException)
\* is the last one issued: run() is rejected at once, with no later step and no
\* DeleteLogGroup or DeregisterTaskDefinition.
C21_FailureBeforeRegistrationStopsTheRun ==
    /\ \A i, j \in 1..Len(commands) :
        i < j => Stage(commands[i].command) <= Stage(commands[j].command)
    /\ \A i \in 1..Len(commands) :
        FailedBeforeRegistration(commands[i])
            => /\ i = Len(commands)
               /\ step = "settled"
               /\ outcome = "rejected"
               /\ Issued("DeleteLogGroup") = <<>>
               /\ Issued("DeregisterTaskDefinition") = <<>>

\* The docker push failed, after a build and a tag that succeeded.
C21_Witness ==
    /\ step = "settled"
    /\ commands # <<>>
    /\ commands[Len(commands)].command = "docker push"
    /\ commands[Len(commands)].answer = 9
    /\ Issued("docker build") = <<Command("docker build", 0)>>
    /\ outcome = "rejected"

Described ==
    LET asked == Issued("DescribeTasks")
    IN  [i \in 1..Len(asked) |-> asked[i].answer]

\* C23: run() polls DescribeTasks until the task's lastStatus is STOPPED: no
\* DescribeTasks follows a STOPPED answer, and while the last answer is not
\* STOPPED run() is still polling, whatever GetLogEvents answered; once run() has
\* settled after polling it is resolved exactly when the exit code of the stopped
\* container is 0.
C23_PollsUntilStoppedThenExitCodeDecides ==
    LET n == Len(Described)
    IN  /\ \A i \in 1..n : i < n => Described[i].lastStatus # "STOPPED"
        /\ (n > 0 /\ Described[n].lastStatus # "STOPPED")
            => (step = "poll" /\ outcome = "pending")
        /\ (n > 0 /\ outcome # "pending")
            => /\ Described[n].lastStatus = "STOPPED"
               /\ outcome = "resolved" <=> Described[n].exitCode = 0

\* Two rounds of polling whose log events could not be fetched (any error), and
\* the run resolved on exit code 0.
C23_Witness ==
    /\ outcome = "resolved"
    /\ Len(Described) = 2
    /\ Issued("GetLogEvents") = <<Command("GetLogEvents", "Error"),
                                  Command("GetLogEvents", "Error")>>

\* ------------------------------------------------------------------ specifier sharing
\* The resolutions made in P's turn.
ResolutionsOf(P) == SelectSeq(resolved, LAMBDA r : r.project = P)

\* The turn of the k-th project is past its specifier step.
PastSpecifier(k) ==
    \/ k < idx
    \/ k = idx /\ pc \in {"record", "write", "inbatch", "outside", "transitive"}

\* C24: without an explicit specifier a fixed release group evaluates the
\* specifier strategy exactly once, in the turn of the first project, and that
\* result, null included, is the specifier of every later turn and of every own
\* version write; an independent group evaluates it once in every project's turn.
C24_StrategyOncePerGroupOrPerProject ==
    (options0.specifier = Null /\ projects # <<>>)
        => /\ options0.projectsRelationship = "fixed"
                => /\ Len(resolved) <= 1
                   /\ PastSpecifier(1) /\ pc # "exited" => Len(resolved) = 1
                   /\ resolved # <<>>
                        => /\ resolved[1].project = projects[1]
                           /\ pc \in {"version", "specifier", "record", "write",
                                      "inbatch", "outside", "transitive"}
                                => specifier = resolved[1].final
                           /\ \A i \in 1..Len(writeLog) :
                                writeLog[i].phase = "own"
                                    => writeLog[i].spec = resolved[1].final
           /\ options0.projectsRelationship = "independent"
                => \A k \in 1..Len(projects) :
                    /\ Len(ResolutionsOf(projects[k])) <= 1
                    /\ PastSpecifier(k) /\ pc # "exited"
                        => Len(ResolutionsOf(projects[k])) = 1

\* A fixed group of two projects: the second turn is past its specifier step and
\* the only evaluation is the first project's, which found nothing to release.
C24_Witness ==
    /\ options0.specifier = Null
    /\ options0.projectsRelationship = "fixed"
    /\ Len(projects) = 2
    /\ idx = 2
    /\ pc = "record"
    /\ Len(resolved) = 1
    /\ resolved[1].final = Null
    /\ specifier = Null

\* ------------------------------------------------------------------ circular pairs
\* C25: during a project's turn a pair <<X, Y>> is in the circular-dependency set
\* only if X depends on Y and Y depends on X; a dependent the processed project
\* does not depend on is not flagged circular.
C25_CircularOnlyWhenMutual ==
    pc \in {"write", "inbatch", "outside", "transitive"}
        => \A pair \in circularDependencies(Project) :
            /\ <<pair[1], pair[2]>> \in Edges
            /\ <<pair[2], pair[1]>> \in Edges

\* ------------------------------------------------------------------ the announced count
\* The dependents whose manifest the turn of P has rewritten.
UpdatedBy(P) ==
    {D \in Projects : \E i \in WritesInTurn(D, P) : writeLog[i].phase # "own"}

\* The 'Applying new version ... to N package(s)' messages of a logger.
Announced(lg) == SelectSeq(lg.logs, LAMBDA l : l.msg = "Applying new version")

\* C26: at the end of the turn of a bumped project, the number its 'Applying new
\* version ... to N package(s)' message announced is the number of dependent
\* projects the turn has updated, and the message was buffered if that number is
\* positive.
C26_AnnouncedCountIsUpdatedCount ==
    \A P \in Projects :
        (JustFinished(P) /\ Bumped(P))
            => /\ UpdatedBy(P) # {} => Len(Announced(logger)) = 1
               /\ \A i \in 1..Len(Announced(logger)) :
                    Announced(logger)[i].n = Cardinality(UpdatedBy(P))

\* ------------------------------------------------------------------ one turn each
\* C27: whatever the local dependency graph, cycles included, and with
\* propagation enabled or disabled, a run ends (it returns, or a fatal error
\* exits), and when the loop over the projects is over every selected project
\* has had exactly one turn: the processing order holds each selected project
\* once and nothing else, and the loop has gone through all of it.
C27_EverySelectedProjectOneTurn ==
    /\ [](pc \in {"format", "returned"}
            => /\ idx = Len(projects) + 1
               /\ Len(projects) = Len(options0.projects)
               /\ \A p \in Projects :
                    Occurrences(projects, p) = Occurrences(options0.projects, p)
               /\ \A p \in Range(options0.projects) : versionData[p] # Null)
    /\ <>(pc \in {"returned", "exited"})

\* A returned run with propagation enabled over three selected projects that
\* depend on each other in a cycle.
C27_Witness ==
    /\ pc = "returned"
    /\ options0.updateDependents = "auto"
    /\ Len(projects) = 3
    /\ {<<1, 2>>, <<2, 3>>, <<3, 1>>} \subseteq Edges

\* ------------------------------------------------------------------ conventional commits
\* 'conventional-commits' is configured with a resolver other than 'git-tag'.
CommitsWithoutGitTag(o) ==
    /\ o.specifierSource = "conventional-commits"
    /\ o.currentVersionResolver # "git-tag"

\* C28: with specifierSource 'conventional-commits', no explicit specifier and a
\* currentVersionResolver other than 'git-tag', the run ends with a fatal error
\* in the turn of the first project and writes no manifest; with a valid explicit
\* specifier the strategy is never evaluated, and the run exits only for an
\* invalid versionPrefix or a current version that cannot be read.
C28_CommitsNeedGitTagUnlessSpecifierGiven ==
    /\ (CommitsWithoutGitTag(options0) /\ options0.specifier = Null)
        => /\ NoManifestWritten
           /\ pc \in {"start", "version", "specifier", "exited"}
           /\ idx <= 1
    /\ (CommitsWithoutGitTag(options0) /\ options0.specifier # Null
            /\ ~InvalidSpecifier(options0))
        => /\ resolved = <<>>
           /\ pc = "exited" => (InvalidVersionPrefix(options0) /\ idx = 0)

\* Two selected projects: the current version of the first was read from its
\* manifest, then the run ended at the check of the resolver.
C28_Witness ==
    /\ pc = "exited"
    /\ CommitsWithoutGitTag(options0)
    /\ options0.specifier = Null
    /\ ~InvalidVersionPrefix(options0)
    /\ Len(projects) = 2
    /\ idx = 1
    /\ currentVersion # Null
    /\ NoManifestWritten

\* ------------------------------------------------------------------ buffered logs
\* The flushes of the logger of P.
FlushesOf(P) == SelectSeq(console, LAMBDA lg : lg.projectName = P)

\* The last flush printed everything the logger has buffered.
LoggerFlushed ==
    /\ logger # Null
    /\ logger.logs # <<>>
    /\ console # <<>>
    /\ console[Len(console)] = logger

\* C29: at the end of the turn of a project its logger has buffered messages
\* and has just been flushed with all of them, unless the project is unchanged
\* and logUnchangedProjects is false: then nothing of it has been printed at the
\* end of its turn.  When a fatal error ends the run in the turn of a project
\* whose logger exists, that logger is flushed with everything it has buffered.
C29_LogsFlushedAtEndOfTurnAndOnError ==
    /\ \A P \in Projects :
        JustFinished(P)
            => IF Bumped(P) \/ options0.logUnchangedProjects
               THEN LoggerFlushed /\ logger.projectName = P
               ELSE /\ logger # Null /\ logger.projectName = P /\ logger.logs # <<>>
                    /\ FlushesOf(P) = <<>>
    /\ (pc = "exited" /\ logger # Null /\ idx >= 1 /\ logger.projectName = projects[idx])
        => LoggerFlushed

\* logUnchangedProjects is false: the first project was unchanged and nothing of
\* it was printed; the turn of the second ended with a fatal error and its
\* buffered messages were flushed.
C29_Witness ==
    /\ pc = "exited"
    /\ ~options0.logUnchangedProjects
    /\ Len(projects) = 2
    /\ idx = 2
    /\ ~Bumped(projects[1])
    /\ logger # Null
    /\ logger.projectName = projects[2]
    /\ console = <<logger>>

\* ------------------------------------------------------------------ rewritten entries
\* The operator the rewritten entry must carry, given the entry it replaces.
ExpectedPrefix(existing) ==
    IF options0.versionPrefix = "auto"
    THEN IF HasVersionString(existing) /\ existing.prefix \in {"^", "~"}
         THEN existing.prefix
         ELSE ""
    ELSE options0.versionPrefix

\* C30: whenever a step rewrites the entry a dependent D records for its
\* dependency P, the new entry is a version string made of a prefix and a version:
\* the prefix is, with versionPrefix 'auto', the leading ^ or ~ of the entry it
\* replaces (none otherwise) and, with any other versionPrefix, that configured
\* value; the version is the turn's new version in the loops over the direct
\* dependents, and a version P has during the step in the transitive loop.
C30_RewrittenEntryIsPrefixAndNewVersion ==
    [][\A D, P \in Projects :
        LET existing == tree.manifest[D].deps[P]
            rewritten == tree'.manifest[D].deps[P]
        IN  rewritten # existing
                => /\ HasVersionString(existing)
                   /\ HasVersionString(rewritten)
                   /\ rewritten.prefix = ExpectedPrefix(existing)
                   /\ IF pc \in {"inbatch", "outside"}
                      THEN P = Project /\ rewritten.version = newVersion
                      ELSE /\ pc = "transitive"
                           /\ ~gt(tree.manifest[P].version, rewritten.version)
                           /\ ~gt(rewritten.version, tree'.manifest[P].version)]_vars

\* The run is configured with the prefix '~': the entry '^1.0.0' of the second
\* project on the first has become '~1.0.1'.
C30_Witness ==
    /\ options0.versionPrefix = "~"
    /\ tree0.manifest[2].deps[1] = Entry("^", Version(1, 0, 0, <<>>))
    /\ tree.manifest[2].deps[1] = Entry("~", Version(1, 0, 1, <<>>))

\* ------------------------------------------------------------------ skipped projects
\* The turn of P has just ended without a version of its own for P.
JustSkipped(P) == JustFinished(P) /\ ~Bumped(P)

\* The direct dependents of P the run knows: every local edge onto P of an
\* independent group, the edges from selected projects of a fixed group.
KnownDependents(P) ==
    {e \in LocalEdges(tree0) :
        /\ e[2] = P
        /\ (options0.projectsRelationship = "independent"
                \/ (e[1] \in Range(options0.projects) /\ P \in Range(options0.projects)))}

\* C31 as stated: when the turn of a selected project ends with a null specifier,
\* the dependentProjects of its versionData entry are exactly its direct dependents
\* in the current batch, under 'never' and under 'auto'.
C31_SkippedRecordsInBatchDependents ==
    \A P \in Projects :
        JustSkipped(P)
        => Range(versionData[P].dependentProjects)
                = {e \in KnownDependents(P) : isInCurrentBatch(e[1])}

\* C31: when the turn of a selected project ends with a null specifier, the
\* dependentProjects of its versionData entry name each of its direct dependents
\* in the current batch once under 'never', and each of its direct dependents,
\* in the batch or outside it, once under 'auto'.
C31_SkippedRecordsDependentsByMode ==
    \A P \in Projects :
        JustSkipped(P)
        => LET recorded == versionData[P].dependentProjects
           IN  /\ Range(recorded)
                    = {e \in KnownDependents(P) :
                        options0.updateDependents = "auto" \/ isInCurrentBatch(e[1])}
               /\ Len(recorded) = Cardinality(Range(recorded))

\* The project 1 was skipped under 'auto' and its entry names its dependent 2,
\* which is not in the batch.
C31_Witness ==
    /\ JustSkipped(1)
    /\ options0.updateDependents = "auto"
    /\ ~isInCurrentBatch(2)
    /\ versionData[1].newVersion = Null
    /\ versionData[1].dependentProjects = <<<<2, 1>>>>

\* ------------------------------------------------------------------ one bump per run
\* The writes of the run that changed the version of p.
Increments(p) ==
    {i \in DOMAIN writeLog : writeLog[i].project = p /\ writeLog[i].from # writeLog[i].to}

\* C32: when the run has returned, the version of every project was changed by
\* at most one write, and that write started from the project's version at the
\* start of the run.
C32_NoProjectBumpedTwice ==
    pc = "returned"
    => \A p \in Projects :
        /\ Cardinality(Increments(p)) <= 1
        /\ \A i \in Increments(p) :
            /\ writeLog[i].from = tree0.manifest[p].version
            /\ writeLog[i].to = tree.manifest[p].version

\* ------------------------------------------------------------------ the returned version data
Changed(p) == tree.manifest[p].version # tree0.manifest[p].version

\* C33: when the run has returned, every project whose manifest version differs
\* from its version at the start of the run has a versionData entry, and the
\* newVersion of that entry is the version in its manifest.
C33_ChangedVersionIsReported ==
    pc = "returned"
    => \A p \in Projects :
        Changed(p)
        => /\ versionData[p] # Null
           /\ versionData[p].newVersion = tree.manifest[p].version

\* C34: when a run that reads the current versions from the manifests (the
\* 'disk' resolver) has returned, the currentVersion of every versionData entry
\* is the version of the project's manifest at the start of the run.
C34_CurrentVersionPredatesTheRun ==
    (pc = "returned" /\ options0.currentVersionResolver = "disk")
    => \A p \in Projects :
        versionData[p] # Null
        => versionData[p].currentVersion = tree0.manifest[p].version

\* ------------------------------------------------------------------ entries after the run
\* C35: when a run with updateDependents 'auto' and without
\* preserveLocalDependencyProtocols has returned, every dependent that recorded a
\* version string for a dependency whose version the run changed names the
\* version now in the manifest of that dependency.
C35_DependentsNameTheFinalVersion ==
    (pc = "returned" /\ options0.updateDependents = "auto"
        /\ ~options0.preserveLocalDependencyProtocols)
    => \A e \in LocalEdges(tree0) :
        (HasVersionString(tree0.manifest[e[1]].deps[e[2]]) /\ Changed(e[2]))
        => tree.manifest[e[1]].deps[e[2]].version = tree.manifest[e[2]].version

\* ------------------------------------------------------------------ printed once
\* The turn of P is over and left its version alone.
Unchanged(P) == TurnOver(P) /\ ~Bumped(P)

\* C36: the buffered lines of a project are printed at most once in a run, and
\* the lines of an unchanged project are not printed at all when
\* logUnchangedProjects is false, whatever happens in the turns after its own.
C36_LinesPrintedAtMostOnce ==
    \A P \in Projects :
        /\ Len(FlushesOf(P)) <= 1
        /\ (~options0.logUnchangedProjects /\ Unchanged(P)) => FlushesOf(P) = <<>>

\* ------------------------------------------------------------------ deleted plans
\* C37: with deleteVersionPlans, a call of the returned callback without dryRun
\* lists every resolved version plan exactly once in its deletedFiles.
C37_EachPlanDeletedOnce ==
    \A i \in DOMAIN calls :
        (options0.deleteVersionPlans /\ ~calls[i].dryRun)
        => \A k \in DOMAIN options0.resolvedVersionPlans :
            Occurrences(calls[i].deletedFiles, options0.resolvedVersionPlans[k].id) = 1

\* ------------------------------------------------------------------ C39
\* C39: the add executor returns success: true only when the dependency was
\* added: after a `poetry add` that exited with a non-zero status it has returned
\* success: false and left the dependency tree alone, and it never throws.
C39_SuccessOnlyWhenAdded ==
    /\ result # Thrown
    /\ \A i \in DOMAIN spawned :
            spawned[i].status # 0
                => (result = Returned(FALSE) /\ dependencyTree = "stale")

\* ------------------------------------------------------------------ C38
\* A forced bump of the given phase that changed a version.
ForcedIn(phase) ==
    \E i \in DOMAIN writeLog :
        writeLog[i].phase = phase /\ writeLog[i].from # writeLog[i].to

\* C38: with preserveLocalDependencyProtocols set, no dependency entry of any
\* manifest differs from the one the run started with, while the versions of the
\* manifests, the writes (own bumps and forced bumps, with their old and new
\* versions), the version data, the lock directories and the registered
\* dependency bumps are those of the same run without the option.
C38_EntriesPreservedBumpsUnchanged ==
    options0.preserveLocalDependencyProtocols
        => /\ \A p, q \in Projects :
                tree.manifest[p].deps[q] = tree0.manifest[p].deps[q]
           /\ \A p \in Projects :
                /\ tree.manifest[p].version = unpreserved.tree.manifest[p].version
                /\ tree.manifest[p].exists = unpreserved.tree.manifest[p].exists
           /\ writeLog = unpreserved.writeLog
           /\ versionData = unpreserved.versionData
           /\ poetryLocks = unpreserved.poetryLocks
           /\ projectToDependencyBumps = unpreserved.bumps

\* A finished run with the option, updateDependents 'auto', that forced the
\* bump of a dependent outside the batch and of a transitive dependent, and
\* that would have rewritten an entry without the option.
C38_Witness ==
    /\ pc = "returned"
    /\ options0.preserveLocalDependencyProtocols
    /\ options0.updateDependents = "auto"
    /\ ForcedIn("outside")
    /\ ForcedIn("transitive")
    /\ \E w \in DOMAIN writeLog :
            writeLog[w].phase = "own" /\ writeLog[w].from # writeLog[w].to
    /\ \E p, q \in Projects :
            unpreserved.tree.manifest[p].deps[q] # tree.manifest[p].deps[q]

====
